---- MODULE Spec2Model ----
(***************************************************************************)
(* dbrest: a command-line client of the DB transport REST API.             *)
(*                                                                         *)
(* The module models                                                       *)
(*   - internal/api: buildURL, Client.URL, Client.Get, HTTPError.Error,    *)
(*     summarize;                                                          *)
(*   - internal/format: the five endpoint formatters and their helpers;    *)
(*   - internal/cli: Run, the command runners, fetch and the writers.      *)
(*                                                                         *)
(* Text is a sequence of tokens; a token is a one-character string, or a   *)
(* longer string standing for a run of characters that no operation of     *)
(* the model looks into.                                                   *)
(***************************************************************************)
EXTENDS Integers, Sequences, FiniteSets, TLC

VARIABLES
    upc,        \* URL composer: "call" before Client.URL ran, "done" after
    base,       \* Client.baseURL: [Scheme, Host, Path]
    path,       \* the resource path handed to Client.URL
    params,     \* the url.Values handed to Client.URL: key -> list of values
                \* (the empty list for a key the map does not hold)
    resolved,   \* buildURL's local `resolved` (a copy of base, Path and RawQuery set)
    target,     \* the string buildURL returns
    gpc,        \* Client.Get and its caller: "new", "idle", "sending", "reading",
                \* "done", "reported"; "noclient" after NewClient failed; "off"
    cfg,        \* the api.Config handed to NewClient
    timeout,    \* Client.http.Timeout, in seconds (0: none set)
    req,        \* the request Get sends: [URL, Accept, UserAgent]
    elapsed,    \* seconds since the request was sent
    resp,       \* the response: [StatusCode, Body]; Body is set once it is read
    getData,    \* the bytes Get returns, <<body>>, or <<>> for nil
    getErr,     \* the error Get (or NewClient) returns
    errText,    \* getErr.Error() as the caller prints it
    fpc,        \* a formatter: "call" before it ran, "done" after; "off"
    endpoint,   \* which formatter: "locations", "stopovers", "journeys", "trip", "radar"
    payload,    \* the data it is given
    header,     \* its withHeader argument
    fout,       \* the text it returns
    ferr,       \* the error it returns: "" for nil
    decoded,    \* the record sequence it decoded (locations, stopovers,
                \* resp.Journeys, resp.Trip.Stopovers, resp.Movements)
    dpc,        \* formatDelay: "call" before it ran, "done" after; "off"
    delayPtr,   \* its argument: <<>> for nil, <<n>> for a pointer to n
    delayText,  \* the string it returns
    rpc,        \* Run: "start", "client", "dispatch", "command", "fetch", "get",
                \* "got", "render", "exit"; "off"
    args,       \* the arguments Run is given
    restArgs,   \* fs.Args() after the global flags
    mode,       \* the OutputMode: "human", "plain", "json"
    verbose,    \* the --verbose flag
    clientCfg,  \* the api.Config Run hands to NewClient
    command,    \* the command Run dispatched to
    cmdArgs,    \* the arguments after the command
    request,    \* the path and parameters the command runner asks for
    calls,      \* the calls of client.Get so far, each with its path and parameters
    outcome,    \* what the last Get returned: [data, err]
    stdout,     \* what was written to Runner.Out
    stderr,     \* what was written to Runner.Err
    exitCode,   \* what Run returned, -1 before it returns
    ppc,        \* pickString / pickTime: "call" before it ran, "done" after; "off"
    pickFn,     \* which of the two is called
    pickArgs,   \* its arguments: <<primary, fallback>>
    picked,     \* the string it returns
    made,       \* the Client as NewClient returned it: [baseURL, timeout, userAgent]
    ncalls,     \* the calls of Client.URL and Client.Get that have returned
    composed    \* what buildURL returned so far: <<path, params, target>> per call

urlVars == <<upc, base, path, params, resolved, target>>
getVars == <<gpc, cfg, timeout, req, elapsed, resp, getData, getErr, errText>>

fmtVars == <<fpc, endpoint, payload, header, fout, ferr, decoded>>

dlyVars == <<dpc, delayPtr, delayText>>

runVars == <<rpc, args, restArgs, mode, verbose, clientCfg, command, cmdArgs, request,
             calls, outcome, stdout, stderr, exitCode>>

pickVars == <<ppc, pickFn, pickArgs, picked>>

useVars == <<made, ncalls, composed>>

vars == <<urlVars, getVars, fmtVars, dlyVars, runVars, pickVars, useVars>>

----------------------------------------------------------------------------
(* Bounds *)

MaxBaseLen == 2     \* characters of the base path after its leading "/"
MaxPathLen == 3     \* characters of the resource path
MaxVals == 1        \* values a query parameter key holds
MaxCfgTimeout == 2  \* the largest configured timeout, in seconds
MaxRecords == 2     \* records in a payload
MaxDelay == 125     \* the largest delay, in seconds, either way
MaxExtra == 2       \* arguments of a command line after the required ones
MaxCalls == 2       \* calls of Get a run is followed for
MaxPickLen == 2     \* characters of an argument of pickString / pickTime
MaxQueryVals == 2   \* values of one key when the query is read back
MaxUses == 2        \* calls of URL and Get one client is followed for

----------------------------------------------------------------------------
(* Strings *)

\* All sequences over S of length at most n.
SeqsUpTo(S, n) == UNION {[1..k -> S] : k \in 0..n}

\* strings.TrimLeft(s, "/")
RECURSIVE TrimLeftSlash(_)
TrimLeftSlash(s) ==
    IF s # <<>> /\ Head(s) = "/" THEN TrimLeftSlash(Tail(s)) ELSE s

\* strings.TrimRight(s, "/")
RECURSIVE TrimRightSlash(_)
TrimRightSlash(s) ==
    IF s # <<>> /\ s[Len(s)] = "/" THEN TrimRightSlash(SubSeq(s, 1, Len(s) - 1)) ELSE s

RECURSIVE Flatten(_)
Flatten(ss) == IF ss = <<>> THEN <<>> ELSE Head(ss) \o Flatten(Tail(ss))

----------------------------------------------------------------------------
(* net/url as buildURL uses it *)

\* The characters of a path: a separator, an unreserved character and two
\* characters that url.URL.String must escape in a path.
PathChars == {"/", "a", "?"}
BasePathChars == {"/", "a"}

\* url.URL.EscapedPath on a URL whose RawPath is not an encoding of Path:
\* every character that cannot stand in a path is written as %XX.
EscapePathChar(c) ==
    CASE c = "?" -> <<"%", "3", "F">>
      [] c = "%" -> <<"%", "2", "5">>
      [] c = " " -> <<"%", "2", "0">>
      [] OTHER   -> <<c>>

EscapedPath(p) == Flatten([i \in 1..Len(p) |-> EscapePathChar(p[i])])

\* The keys a url.Values may hold, in the byte order sort.Strings gives them.
SortedKeys == <<"query", "results">>
Keys == {SortedKeys[i] : i \in 1..Len(SortedKeys)}

\* The values of a query parameter: plain, and with characters that
\* url.QueryEscape rewrites.
QueryValues == {<<"5">>, <<"a", "&">>, <<"a", " ">>}

\* url.QueryEscape, character by character.
QueryEscapeChar(c) ==
    CASE c = " " -> <<"+">>
      [] c = "&" -> <<"%", "2", "6">>
      [] c = "=" -> <<"%", "3", "D">>
      [] c = "+" -> <<"%", "2", "B">>
      [] c = "%" -> <<"%", "2", "5">>
      [] OTHER   -> <<c>>

QueryEscapeKeepsPlus(s) ==
    Flatten([i \in 1..Len(s) |-> IF s[i] = "+" THEN <<"+">> ELSE QueryEscapeChar(s[i])])

QueryEscape(s) == Flatten([i \in 1..Len(s) |-> QueryEscapeChar(s[i])])

\* len(v) of a url.Values
LenValues(v) == Cardinality({k \in Keys : v[k] # <<>>})

\* The "key=value" pairs url.Values.Encode writes: keys sorted, the values of
\* one key in their order.
RECURSIVE EncodePairs(_, _)
EncodePairs(v, i) ==
    IF i > Len(SortedKeys) THEN <<>>
    ELSE [j \in 1..Len(v[SortedKeys[i]]) |->
              <<SortedKeys[i], "=">> \o QueryEscape(v[SortedKeys[i]][j])]
         \o EncodePairs(v, i + 1)

RECURSIVE JoinAmp(_)
JoinAmp(ps) ==
    IF ps = <<>> THEN <<>>
    ELSE IF Len(ps) = 1 THEN ps[1]
    ELSE ps[1] \o <<"&">> \o JoinAmp(Tail(ps))

\* url.Values.Encode
EncodeValues(v) == JoinAmp(EncodePairs(v, 1))

\* url.URL.String for a URL with no user, opaque part or fragment.
URLString(u) ==
    (IF u.Scheme # "" THEN <<u.Scheme, ":">> ELSE <<>>)
    \o (IF (u.Scheme # "" \/ u.Host # "") /\ (u.Host # "" \/ u.Path # <<>>)
        THEN <<"//">> ELSE <<>>)
    \o (IF u.Host # "" THEN <<u.Host>> ELSE <<>>)
    \o (IF u.Path # <<>> /\ Head(u.Path) # "/" /\ u.Host # "" THEN <<"/">> ELSE <<>>)
    \o EscapedPath(u.Path)
    \o (IF u.RawQuery # <<>> THEN <<"?">> \o u.RawQuery ELSE <<>>)

----------------------------------------------------------------------------
(* internal/api: buildURL *)

\* The path buildURL gives the target: lines 98-103.
MergedPathLeadingSlashEscapes(basePath, p) ==
    IF p # <<>> /\ Head(p) = "/" THEN <<"/">> \o TrimLeftSlash(p)
    ELSE TrimRightSlash(basePath) \o <<"/">> \o p

MergedPath(basePath, p) ==
    LET cleanPath == TrimLeftSlash(p)
        basePath2 == TrimRightSlash(basePath)
    IN  IF basePath2 # <<>> THEN basePath2 \o <<"/">> \o cleanPath
        ELSE <<"/">> \o cleanPath

\* buildURL's `resolved`: a copy of base with Path and RawQuery set.
Resolved(b, p, v) ==
    [Scheme |-> b.Scheme, Host |-> b.Host,
     Path |-> MergedPath(b.Path, p),
     RawQuery |-> IF LenValues(v) > 0 THEN EncodeValues(v) ELSE <<>>]

buildURL(b, p, v) == URLString(Resolved(b, p, v))

\* What *base holds once buildURL returned.  Line 104 copies the struct
\* (resolved := *base), so the writes to resolved.Path and
\* resolved.RawQuery do not reach it.
BaseAfterBuildURLShared(b, p, v) == [b EXCEPT !.Path = MergedPath(b.Path, p)]

BaseAfterBuildURL(b, p, v) == b

\* The bases url.Parse gives for an absolute URI: the path is empty or
\* starts with "/".
BasePaths == {<<>>} \cup {<<"/">> \o s : s \in SeqsUpTo(BasePathChars, MaxBaseLen)}
Bases == [Scheme : {"http"}, Host : {"h"}, Path : BasePaths]
ResourcePaths == SeqsUpTo(PathChars, MaxPathLen)
ValueLists == SeqsUpTo(QueryValues, MaxVals)
ParamSets == [Keys -> ValueLists]
NoParams == [k \in Keys |-> <<>>]
NoURL == [Scheme |-> "", Host |-> "", Path |-> <<>>, RawQuery |-> <<>>]

----------------------------------------------------------------------------
(* Decimal numbers: fmt's %d *)

DigitChar(d) ==
    CASE d = 0 -> "0" [] d = 1 -> "1" [] d = 2 -> "2" [] d = 3 -> "3" [] d = 4 -> "4"
      [] d = 5 -> "5" [] d = 6 -> "6" [] d = 7 -> "7" [] d = 8 -> "8" [] d = 9 -> "9"

\* The decimal digits of n >= 0.
RECURSIVE Digits(_)
Digits(n) == IF n < 10 THEN <<DigitChar(n)>> ELSE Digits(n \div 10) \o <<DigitChar(n % 10)>>

\* fmt.Sprintf("%d", n)
FormatD(n) == IF n < 0 THEN <<"-">> \o Digits(0 - n) ELSE Digits(n)

----------------------------------------------------------------------------
(* internal/api: errors, HTTPError, summarize *)

WhiteSpace == {" ", "\n", "\t"}

\* strings.TrimSpace
RECURSIVE TrimSpaceLeft(_)
TrimSpaceLeft(s) ==
    IF s # <<>> /\ Head(s) \in WhiteSpace THEN TrimSpaceLeft(Tail(s)) ELSE s

RECURSIVE TrimSpaceRight(_)
TrimSpaceRight(s) ==
    IF s # <<>> /\ s[Len(s)] \in WhiteSpace
    THEN TrimSpaceRight(SubSeq(s, 1, Len(s) - 1)) ELSE s

TrimSpace(s) == TrimSpaceRight(TrimSpaceLeft(s))

\* A string of nothing but white space, the empty string included.
IsBlank(s) == \A i \in 1..Len(s) : s[i] \in WhiteSpace

\* An error value: nil, errors.New(text), fmt.Errorf(text + ": %w", cause),
\* or HTTPError{Status, Body}.
NoErr == [kind |-> "nil", text |-> "", cause |-> "", Status |-> 0, Body |-> <<>>]
ErrorsNew(text) ==
    [kind |-> "errorString", text |-> text, cause |-> "", Status |-> 0, Body |-> <<>>]
Wrap(text, cause) ==
    [kind |-> "wrapError", text |-> text, cause |-> cause, Status |-> 0, Body |-> <<>>]
HTTPError(status, body) ==
    [kind |-> "HTTPError", text |-> "", cause |-> "", Status |-> status, Body |-> body]

\* http.StatusText: the reason phrase of a registered status code, "" for
\* any other code.
StatusText(code) ==
    CASE code = 101 -> <<"S", "w", "i", "t", "c", "h", "i", "n", "g", " ", "P", "r", "o", "t", "o", "c", "o", "l", "s">>
      [] code = 200 -> <<"O", "K">>
      [] code = 204 -> <<"N", "o", " ", "C", "o", "n", "t", "e", "n", "t">>
      [] code = 300 -> <<"M", "u", "l", "t", "i", "p", "l", "e", " ", "C", "h", "o", "i", "c", "e", "s">>
      [] code = 304 -> <<"N", "o", "t", " ", "M", "o", "d", "i", "f", "i", "e", "d">>
      [] code = 404 -> <<"N", "o", "t", " ", "F", "o", "u", "n", "d">>
      [] code = 500 -> <<"I", "n", "t", "e", "r", "n", "a", "l", " ", "S", "e", "r", "v", "e", "r", " ", "E", "r", "r", "o", "r">>
      [] OTHER -> <<>>

SummaryMax == 200

\* summarize(msg, max)
SummarizeNoEllipsis(msg, max) == IF Len(msg) <= max THEN msg ELSE SubSeq(msg, 1, max)

summarize(msg, max) ==
    IF Len(msg) <= max THEN msg ELSE SubSeq(msg, 1, max) \o <<".", ".", ".">>

\* The msg of HTTPError.Error: lines 121-125.
HTTPErrorMsg(e) ==
    LET msg == TrimSpace(e.Body)
    IN  summarize(IF msg = <<>> THEN StatusText(e.Status) ELSE msg, SummaryMax)

\* err.Error()
ErrorString(e) ==
    CASE e.kind = "HTTPError" ->
            <<"request failed: ">> \o FormatD(e.Status) \o <<" ">> \o HTTPErrorMsg(e)
      [] e.kind = "wrapError" -> <<e.text, ": ", e.cause>>
      [] OTHER -> <<e.text>>

----------------------------------------------------------------------------
(* internal/api: NewClient and Client.Get *)

DefaultTimeout == 10
StatusOK == 200
StatusMultipleChoices == 300

\* The configured base URLs: blank, not parsable, relative, and absolute
\* with and without a path prefix.
HostPart == <<"http", ":", "//", "h">>
CfgBaseURLs ==
    {<<>>, <<" ">>, <<":">>, <<"a", "/">>, HostPart, HostPart \o <<"/", "a", "/">>}

HasHostPart(raw) == Len(raw) >= Len(HostPart) /\ SubSeq(raw, 1, Len(HostPart)) = HostPart

\* url.Parse(raw): whether it succeeds ("missing protocol scheme" for a
\* leading colon), and the URL it gives.
ParseOK(raw) == ~(raw # <<>> /\ Head(raw) = ":")
ParseURL(raw) ==
    IF HasHostPart(raw)
    THEN [Scheme |-> "http", Host |-> "h", Path |-> SubSeq(raw, Len(HostPart) + 1, Len(raw))]
    ELSE [Scheme |-> "", Host |-> "", Path |-> raw]

CfgTimeouts == (0 - 1)..MaxCfgTimeout
UserAgents == {"", "dbrest/dev"}
Configs == [BaseURL : CfgBaseURLs, Timeout : CfgTimeouts, UserAgent : UserAgents]
NoCfg == [BaseURL |-> <<>>, Timeout |-> 0, UserAgent |-> ""]

\* NewClient, lines 43-45: the timeout the client is given.
ClientTimeoutAsConfigured(t) == t

ClientTimeoutZeroOnly(t) == IF t = 0 THEN DefaultTimeout ELSE t

ClientTimeout(t) == IF t <= 0 THEN DefaultTimeout ELSE t

\* The status codes a response may carry, around the borders of 2xx.
StatusCodes == {101, 200, 204, 299, 300, 304, 404, 500, 599}

\* Response bodies: a run of n characters, bare or inside white space, and
\* the body of the repository's own test.
BodyOfLen(n) == [i \in 1..n |-> "x"]
BodyLens == {0, 1, SummaryMax - 1, SummaryMax, SummaryMax + 1, SummaryMax + 5}
NotFoundBody == <<"{", "\"", "e", "r", "r", "o", "r", "\"", ":", "\"", "n", "o", "t", " ", "f", "o", "u", "n", "d", "\"", "}">>
Bodies ==
    {BodyOfLen(n) : n \in BodyLens}
    \cup {<<" ">> \o BodyOfLen(n) \o <<"\n">> : n \in BodyLens}
    \cup {NotFoundBody}

NoReq == [URL |-> <<>>, Accept |-> "", UserAgent |-> ""]
NoResp == [StatusCode |-> 0, Body |-> <<>>, BodyRead |-> FALSE]

\* Client.Get, lines 88-91: what Get returns once the body is read.
GetResultRedirectIsSuccess(r) ==
    IF r.StatusCode < StatusOK \/ r.StatusCode >= 400
    THEN [data |-> <<>>, err |-> HTTPError(r.StatusCode, r.Body)]
    ELSE [data |-> <<r.Body>>, err |-> NoErr]

GetResult(r) ==
    IF r.StatusCode < StatusOK \/ r.StatusCode >= StatusMultipleChoices
    THEN [data |-> <<>>, err |-> HTTPError(r.StatusCode, r.Body)]
    ELSE [data |-> <<r.Body>>, err |-> NoErr]

\* The causes http.Client.Do fails with before any response.
DoCauses(b) ==
    IF b.Scheme = "" THEN {"unsupported protocol scheme"}
    ELSE {"no such host", "connection refused"}

DelayOff == dpc = "off" /\ delayPtr = <<>> /\ delayText = <<>>

PickOff == ppc = "off" /\ pickFn = "" /\ pickArgs = <<>> /\ picked = <<>>

UseOff == made = <<>> /\ ncalls = 0 /\ composed = {}

FormatOff ==
    /\ fpc = "off" /\ endpoint = "" /\ payload = [k |-> "null"] /\ header = FALSE
    /\ fout = <<>> /\ ferr = "" /\ decoded = <<>>

RunOff ==
    /\ rpc = "off" /\ args = <<>> /\ restArgs = <<>> /\ mode = "" /\ verbose = FALSE
    /\ clientCfg = NoCfg /\ command = "" /\ cmdArgs = <<>>
    /\ request = [path |-> <<>>, values |-> <<>>]
    /\ calls = <<>>
    /\ outcome = [data |-> [text |-> <<>>, json |-> [k |-> "invalid"]], err |-> NoErr]
    /\ stdout = <<>> /\ stderr = <<>> /\ exitCode = 0 - 1

URLOff ==
    /\ upc = "off" /\ base = ParseURL(<<>>) /\ path = <<>> /\ params = NoParams
    /\ resolved = NoURL /\ target = <<>>

GetOff ==
    /\ gpc = "off" /\ cfg = NoCfg /\ timeout = 0 /\ req = NoReq /\ elapsed = 0
    /\ resp = NoResp /\ getData = <<>> /\ getErr = NoErr /\ errText = <<>>

GetInit ==
    /\ FormatOff /\ DelayOff /\ RunOff /\ PickOff /\ UseOff
    /\ gpc = "new"
    /\ cfg \in Configs
    /\ timeout = 0 /\ req = NoReq /\ elapsed = 0 /\ resp = NoResp
    /\ getData = <<>> /\ getErr = NoErr /\ errText = <<>>
    /\ upc = "off"
    /\ base = ParseURL(<<>>)
    /\ path = <<"/", "a">>
    /\ params \in {NoParams, [NoParams EXCEPT !["query"] = <<(<<"a", "&">>)>>]}
    /\ resolved = NoURL /\ target = <<>>

\* The time limit of http.Client, when one is set, has not passed.
BeforeLimit == timeout <= 0 \/ elapsed < timeout

\* NewClient
NewClient ==
    /\ gpc = "new"
    /\ IF TrimSpace(cfg.BaseURL) = <<>>
       THEN /\ getErr' = ErrorsNew("base URL is required")
            /\ gpc' = "noclient"
            /\ UNCHANGED <<base, timeout>>
       ELSE IF ~ParseOK(cfg.BaseURL)
       THEN /\ getErr' = Wrap("parse base URL", "missing protocol scheme")
            /\ gpc' = "noclient"
            /\ UNCHANGED <<base, timeout>>
       ELSE /\ base' = ParseURL(cfg.BaseURL)
            /\ timeout' = ClientTimeout(cfg.Timeout)
            /\ gpc' = "idle"
            /\ UNCHANGED getErr
    /\ UNCHANGED <<upc, path, params, resolved, target>>
    /\ UNCHANGED <<cfg, req, elapsed, resp, getData, errText>>
    /\ UNCHANGED <<fmtVars, dlyVars, runVars, pickVars, useVars>>

\* Client.Get on a nil client, lines 62-64.
GetNotConfigured ==
    /\ gpc = "noclient"
    /\ getErr' = ErrorsNew("client is not configured")
    /\ getData' = <<>>
    /\ gpc' = "done"
    /\ UNCHANGED urlVars
    /\ UNCHANGED <<cfg, timeout, req, elapsed, resp, errText>>
    /\ UNCHANGED <<fmtVars, dlyVars, runVars, pickVars, useVars>>

\* Client.Get, lines 65-77: the target is built and the request is sent.
\* (http.NewRequestWithContext does not fail on a target url.URL.String
\* wrote, with the method GET and a context that is not nil.)
GetSend ==
    /\ gpc = "idle"
    /\ resolved' = Resolved(base, path, params)
    /\ target' = buildURL(base, path, params)
    /\ req' = [URL |-> target', Accept |-> "application/json", UserAgent |-> cfg.UserAgent]
    /\ elapsed' = 0
    /\ gpc' = "sending"
    /\ UNCHANGED <<upc, base, path, params>>
    /\ UNCHANGED <<cfg, timeout, resp, getData, getErr, errText>>
    /\ UNCHANGED <<fmtVars, dlyVars, runVars, pickVars, useVars>>

\* Client.Get, lines 77-80: http.Client.Do fails.
DoFails ==
    /\ gpc = "sending"
    /\ \E cause \in DoCauses(base) : getErr' = Wrap("request failed", cause)
    /\ getData' = <<>>
    /\ elapsed' = 0
    /\ gpc' = "done"
    /\ UNCHANGED urlVars
    /\ UNCHANGED <<cfg, timeout, req, resp, errText>>
    /\ UNCHANGED <<fmtVars, dlyVars, runVars, pickVars, useVars>>

\* Client.Get, line 77: http.Client.Do returns a response before the time
\* limit; its body is still to be read.
DoResponds ==
    /\ gpc = "sending"
    /\ base.Scheme # ""
    /\ BeforeLimit
    /\ \E code \in StatusCodes : resp' = [StatusCode |-> code, Body |-> <<>>, BodyRead |-> FALSE]
    /\ gpc' = "reading"
    /\ UNCHANGED urlVars
    /\ UNCHANGED <<cfg, timeout, req, elapsed, getData, getErr, errText>>
    /\ UNCHANGED <<fmtVars, dlyVars, runVars, pickVars, useVars>>

\* Client.Get, lines 84-91: the body is read to its end before the time
\* limit, and Get returns.
ReadBody ==
    /\ gpc = "reading"
    /\ BeforeLimit
    /\ \E b \in Bodies : resp' = [resp EXCEPT !.Body = b, !.BodyRead = TRUE]
    /\ getData' = GetResult(resp').data
    /\ getErr' = GetResult(resp').err
    /\ elapsed' = 0
    /\ gpc' = "done"
    /\ UNCHANGED urlVars
    /\ UNCHANGED <<cfg, timeout, req, errText>>
    /\ UNCHANGED <<fmtVars, dlyVars, runVars, pickVars, useVars>>

\* Client.Get, lines 84-87: io.ReadAll fails.
ReadFails ==
    /\ gpc = "reading"
    /\ getErr' = Wrap("read response", "unexpected EOF")
    /\ getData' = <<>>
    /\ elapsed' = 0
    /\ gpc' = "done"
    /\ UNCHANGED urlVars
    /\ UNCHANGED <<cfg, timeout, req, resp, errText>>
    /\ UNCHANGED <<fmtVars, dlyVars, runVars, pickVars, useVars>>

\* A second passes while the request is in flight.  http.Client counts
\* the time up to Client.Timeout when one is set (lines 48-50).
Tick ==
    /\ gpc \in {"sending", "reading"}
    /\ IF timeout > 0 THEN elapsed < timeout ELSE elapsed < DefaultTimeout
    /\ elapsed' = elapsed + 1
    /\ UNCHANGED urlVars
    /\ UNCHANGED <<gpc, cfg, timeout, req, resp, getData, getErr, errText>>
    /\ UNCHANGED <<fmtVars, dlyVars, runVars, pickVars, useVars>>

\* http.Client.Timeout expires: the request is cancelled, and Do or
\* io.ReadAll returns the error, which Get wraps (lines 78-80, 85-87).
TimeoutExpires ==
    /\ gpc \in {"sending", "reading"}
    /\ timeout > 0
    /\ elapsed >= timeout
    /\ getErr' = Wrap(IF gpc = "sending" THEN "request failed" ELSE "read response",
                      "Client.Timeout exceeded")
    /\ getData' = <<>>
    /\ elapsed' = 0
    /\ gpc' = "done"
    /\ UNCHANGED urlVars
    /\ UNCHANGED <<cfg, timeout, req, resp, errText>>
    /\ UNCHANGED <<fmtVars, dlyVars, runVars, pickVars, useVars>>

\* The caller prints the error: fetch, part_002 lines 708-711.
ReportError ==
    /\ gpc = "done"
    /\ getErr # NoErr
    /\ errText' = ErrorString(getErr)
    /\ gpc' = "reported"
    /\ UNCHANGED urlVars
    /\ UNCHANGED <<cfg, timeout, req, elapsed, resp, getData, getErr>>
    /\ UNCHANGED <<fmtVars, dlyVars, runVars, pickVars, useVars>>

GetNext ==
    \/ NewClient
    \/ GetNotConfigured
    \/ GetSend
    \/ DoFails
    \/ DoResponds
    \/ ReadBody
    \/ ReadFails
    \/ Tick
    \/ TimeoutExpires
    \/ ReportError

\* Time passes, and the timer of http.Client fires when it is due.
SpecGet == GetInit /\ [][GetNext]_vars /\ WF_vars(Tick) /\ WF_vars(TimeoutExpires)

Returned == gpc \in {"done", "reported"}
InFlight == gpc \in {"sending", "reading"}
IsSuccessStatus(code) == code >= 200 /\ code <= 299

\* C2: Get returns a payload and no error exactly when a response was
\* obtained (read to its end) with a status in 200..299; for a response with
\* any other status it returns no payload and an HTTPError carrying the
\* status of the response.
C2_PayloadIffSuccess ==
    Returned =>
        /\ (getData # <<>> /\ getErr = NoErr)
               <=> (resp.BodyRead /\ IsSuccessStatus(resp.StatusCode))
        /\ getData # <<>> => getData = <<resp.Body>>
        /\ (getData = <<>>) <=> (getErr # NoErr)
        /\ (resp.BodyRead /\ ~IsSuccessStatus(resp.StatusCode)) =>
               /\ getData = <<>>
               /\ getErr.kind = "HTTPError"
               /\ getErr.Status = resp.StatusCode

\* The repository's test: 404 with the body {"error":"not found"}.
C2_Witness ==
    /\ gpc = "done"
    /\ resp.StatusCode = 404
    /\ resp.Body = NotFoundBody
    /\ getData = <<>>
    /\ getErr = HTTPError(404, NotFoundBody)

\* The message part of the printed HTTPError: what follows
\* "request failed: <status> ".
Message == SubSeq(errText, Len(FormatD(getErr.Status)) + 3, Len(errText))

\* What the message is taken from: the body, or the reason phrase when the
\* body holds nothing but white space.
MessageSource ==
    IF TrimSpace(getErr.Body) = <<>> THEN StatusText(getErr.Status)
    ELSE TrimSpace(getErr.Body)

\* At most 200 characters of the source, and "..." after them exactly when
\* characters were cut.
MessageIsSummary ==
    IF Len(MessageSource) <= 200
    THEN Message = MessageSource
    ELSE /\ Len(Message) = 203
         /\ SubSeq(Message, 1, 200) = SubSeq(MessageSource, 1, 200)
         /\ SubSeq(Message, 201, 203) = <<".", ".", ".">>

HTTPErrorReported == gpc = "reported" /\ getErr.kind = "HTTPError"

\* C3 as stated: the message of an HTTPError comes from the body, or from
\* the reason phrase of the status when the body is empty; it is never
\* empty, keeps at most 200 characters, and ends in "..." exactly when it
\* was cut.
C3_Original == HTTPErrorReported => (Message # <<>> /\ MessageIsSummary)

\* C3 as amended: the same, but the message is empty when the body is
\* blank and the status has no registered reason phrase (599, say), and
\* only then.
C3_MessageSummary ==
    HTTPErrorReported =>
        /\ MessageIsSummary
        /\ (Message = <<>>) <=>
               (TrimSpace(getErr.Body) = <<>> /\ StatusText(getErr.Status) = <<>>)

\* A body of more than 200 characters inside white space: the message is
\* its first 200 characters and "...".
C3_Witness ==
    /\ HTTPErrorReported
    /\ getErr.Body = <<" ">> \o BodyOfLen(SummaryMax + 1) \o <<"\n">>
    /\ Message = BodyOfLen(SummaryMax) \o <<".", ".", ".">>

\* A request was sent and no response was read to its end.
NoResponse == req # NoReq /\ ~resp.BodyRead

\* C4: when no response is obtained, Get returns an error that wraps its
\* cause and is no HTTPError; and once the time limit has passed, the
\* request in flight ends, Get returning that error.
C4_NetworkError ==
    /\ [](Returned /\ NoResponse =>
            /\ getErr.kind = "wrapError"
            /\ getErr.cause # ""
            /\ getData = <<>>)
    /\ [][(InFlight /\ elapsed >= timeout /\ ~InFlight') =>
            /\ Returned'
            /\ getErr'.kind = "wrapError"
            /\ getErr'.cause # ""]_vars
    /\ ((InFlight /\ elapsed >= timeout) ~> Returned)

\* The time limit passes while the body is read.
C4_Witness ==
    /\ gpc = "done"
    /\ resp.StatusCode = 200
    /\ ~resp.BodyRead
    /\ getErr = Wrap("read response", "Client.Timeout exceeded")

\* An absolute URI: a scheme and an authority ahead of the path.
IsAbsoluteURI(raw) ==
    /\ Len(raw) >= 4
    /\ raw[1] \notin {":", "/", " "}
    /\ raw[2] = ":"
    /\ raw[3] = "//"
    /\ raw[4] \notin {"/", " "}

\* C15: NewClient fails with an error for a base URL that is no absolute
\* URI (blank, a relative path, no scheme or host), so no client holds such
\* a base and no target is ever composed from one.
C15_AbsoluteBaseRequired ==
    (gpc \notin {"off", "new"} /\ ~IsAbsoluteURI(cfg.BaseURL)) =>
        /\ getErr # NoErr
        /\ gpc \in {"noclient", "done", "reported"}
        /\ target = <<>>
        /\ req = NoReq

----------------------------------------------------------------------------
(* encoding/json as the formatters use it *)

\* A payload is JSON text.  A JSON value is null, a string (a sequence of
\* tokens), a number (in millionths, so that 52.525 is 52525000), a
\* boolean, an array or an object (its members in the order of the text);
\* JInvalid is text that is no JSON value.
JInvalid == [k |-> "invalid"]
JNull == [k |-> "null"]
JStr(s) == [k |-> "str", s |-> s]
JNum(m) == [k |-> "num", micro |-> m]
JInt(n) == [k |-> "num", micro |-> n * 1000000]
JBool(b) == [k |-> "bool", b |-> b]
JArr(items) == [k |-> "arr", items |-> items]
JObj(members) == [k |-> "obj", members |-> members]

\* The Go types the payloads are decoded into.
TString == [t |-> "string"]
TBool == [t |-> "bool"]
TInt == [t |-> "int"]
TPtrInt == [t |-> "*int"]
TPtrFloat == [t |-> "*float64"]
TSlice(elem) == [t |-> "slice", elem |-> elem]
TPtr(elem) == [t |-> "ptr", elem |-> elem]
TStruct(fields) == [t |-> "struct", fields |-> fields]
Field(name, tag, ty) == [name |-> name, tag |-> tag, ty |-> ty]

FieldNames(ty) == {ty.fields[i].name : i \in 1..Len(ty.fields)}
FieldNamed(ty, n) == ty.fields[CHOOSE i \in 1..Len(ty.fields) : ty.fields[i].name = n]

\* The zero value of a Go type: nil is <<>> for pointers and slices.
RECURSIVE Zero(_)
Zero(ty) ==
    CASE ty.t = "string" -> <<>>
      [] ty.t = "bool" -> FALSE
      [] ty.t = "int" -> 0
      [] ty.t = "struct" -> [n \in FieldNames(ty) |-> Zero(FieldNamed(ty, n).ty)]
      [] OTHER -> <<>>

\* The member of an object that a struct field is decoded from: the last
\* one with the field's tag, null when there is none (the field is left
\* as it is, as for a null).
MemberRequired(members, tag) ==
    LET at == {i \in 1..Len(members) : members[i][1] = tag}
    IN  IF at = {} THEN JInvalid
        ELSE members[CHOOSE i \in at : \A j \in at : j <= i][2]

Member(members, tag) ==
    LET at == {i \in 1..Len(members) : members[i][1] = tag}
    IN  IF at = {} THEN JNull
        ELSE members[CHOOSE i \in at : \A j \in at : j <= i][2]

\* json.Unmarshal(data, &v) for a zero v of type ty: [err, v], err being ""
\* or the type of the error.  A null leaves v as it is; a value of another
\* kind than the type takes is an UnmarshalTypeError.
RECURSIVE Decode(_, _)
Decode(ty, j) ==
    LET ok(v) == [err |-> "", v |-> v]
        typeError == [err |-> "UnmarshalTypeError", v |-> Zero(ty)]
    IN
    CASE j.k = "invalid" -> [err |-> "SyntaxError", v |-> Zero(ty)]
      [] j.k = "null" -> ok(Zero(ty))
      [] ty.t = "string" -> IF j.k = "str" THEN ok(j.s) ELSE typeError
      [] ty.t = "bool" -> IF j.k = "bool" THEN ok(j.b) ELSE typeError
      [] ty.t = "int" ->
            IF j.k = "num" /\ j.micro % 1000000 = 0
            THEN ok(j.micro \div 1000000) ELSE typeError
      [] ty.t = "*int" ->
            IF j.k = "num" /\ j.micro % 1000000 = 0
            THEN ok(<<j.micro \div 1000000>>) ELSE typeError
      [] ty.t = "*float64" -> IF j.k = "num" THEN ok(<<j.micro>>) ELSE typeError
      [] ty.t = "ptr" ->
            LET d == Decode(ty.elem, j) IN [err |-> d.err, v |-> <<d.v>>]
      [] ty.t = "slice" ->
            IF j.k = "arr"
            THEN LET ds == [i \in 1..Len(j.items) |-> Decode(ty.elem, j.items[i])]
                     bad == {i \in 1..Len(ds) : ds[i].err # ""}
                 IN  [err |-> IF bad = {} THEN ""
                              ELSE ds[CHOOSE i \in bad : \A b \in bad : i <= b].err,
                      v |-> [i \in 1..Len(ds) |-> ds[i].v]]
            ELSE typeError
      [] ty.t = "struct" ->
            IF j.k = "obj"
            THEN LET ds == [n \in FieldNames(ty) |->
                               Decode(FieldNamed(ty, n).ty,
                                      Member(j.members, FieldNamed(ty, n).tag))]
                 IN  [err |-> IF \A n \in FieldNames(ty) : ds[n].err = "" THEN ""
                              ELSE "UnmarshalTypeError",
                      v |-> [n \in FieldNames(ty) |-> ds[n].v]]
            ELSE typeError

----------------------------------------------------------------------------
(* internal/format: the types *)

Location ==
    TStruct(<<Field("ID", "id", TString), Field("Name", "name", TString),
              Field("Type", "type", TString),
              Field("Latitude", "latitude", TPtrFloat),
              Field("Longitude", "longitude", TPtrFloat),
              Field("Distance", "distance", TPtrInt)>>)

Line == TStruct(<<Field("Name", "name", TString)>>)

Stopover ==
    TStruct(<<Field("When", "when", TString),
              Field("PlannedWhen", "plannedWhen", TString),
              Field("Delay", "delay", TPtrInt),
              Field("Platform", "platform", TString),
              Field("PlannedPlatform", "plannedPlatform", TString),
              Field("Cancelled", "cancelled", TBool),
              Field("Direction", "direction", TString),
              Field("Line", "line", Line),
              Field("Stop", "stop", Location)>>)

Leg ==
    TStruct(<<Field("Origin", "origin", TPtr(Location)),
              Field("Destination", "destination", TPtr(Location)),
              Field("Departure", "departure", TString),
              Field("PlannedDep", "plannedDeparture", TString),
              Field("Arrival", "arrival", TString),
              Field("PlannedArr", "plannedArrival", TString)>>)

Journey ==
    TStruct(<<Field("Legs", "legs", TSlice(Leg)),
              Field("Transfers", "transfers", TInt)>>)

JourneysResponse == TStruct(<<Field("Journeys", "journeys", TSlice(Journey))>>)

TripStop ==
    TStruct(<<Field("Stop", "stop", Location),
              Field("Arrival", "arrival", TString),
              Field("PlannedArrival", "plannedArrival", TString),
              Field("Departure", "departure", TString),
              Field("PlannedDeparture", "plannedDeparture", TString),
              Field("Platform", "platform", TString),
              Field("PlannedPlatform", "plannedPlatform", TString)>>)

Trip ==
    TStruct(<<Field("Line", "line", Line),
              Field("Stopovers", "stopovers", TSlice(TripStop))>>)

TripResponse == TStruct(<<Field("Trip", "trip", Trip)>>)

Position ==
    TStruct(<<Field("Latitude", "latitude", TPtrFloat),
              Field("Longitude", "longitude", TPtrFloat)>>)

Movement ==
    TStruct(<<Field("Line", "line", Line),
              Field("Direction", "direction", TString),
              Field("Location", "location", Position)>>)

RadarResponse == TStruct(<<Field("Movements", "movements", TSlice(Movement))>>)

----------------------------------------------------------------------------
(* internal/format: the helpers *)

\* Go's integer division and remainder truncate toward zero.
GoQuo(a, b) == IF a >= 0 THEN a \div b ELSE 0 - ((0 - a) \div b)
GoRem(a, b) == a - b * GoQuo(a, b)

Abs(n) == IF n < 0 THEN 0 - n ELSE n

\* fmt.Sprintf("%+d", n)
FormatPlusD(n) == (IF n < 0 THEN <<"-">> ELSE <<"+">>) \o Digits(Abs(n))

\* The digits of n, with zeros in front, in a field of w characters.
RECURSIVE ZeroPad(_, _)
ZeroPad(ds, w) == IF Len(ds) >= w THEN ds ELSE ZeroPad(<<"0">> \o ds, w)

\* formatFloat: "-" for nil, else fmt.Sprintf("%.6f", *value); the value
\* is in millionths.
formatFloat(value) ==
    IF value = <<>> THEN <<"-">>
    ELSE LET m == value[1]
         IN  (IF m < 0 THEN <<"-">> ELSE <<>>)
             \o Digits(Abs(m) \div 1000000) \o <<".">>
             \o ZeroPad(Digits(Abs(m) % 1000000), 6)

\* formatInt
formatInt(value) == IF value = <<>> THEN <<"-">> ELSE FormatD(value[1])

\* formatDelay
formatDelayRounded(delay) ==
    IF delay = <<>> THEN <<"-">>
    ELSE IF delay[1] = 0 THEN <<"0", "m">>
    ELSE IF Abs(delay[1]) >= 60 THEN FormatPlusD(GoQuo(delay[1], 60)) \o <<"m">>
    ELSE FormatPlusD(delay[1]) \o <<"s">>

formatDelay(delay) ==
    IF delay = <<>> THEN <<"-">>
    ELSE IF delay[1] = 0 THEN <<"0", "m">>
    ELSE IF GoRem(delay[1], 60) = 0 THEN FormatPlusD(GoQuo(delay[1], 60)) \o <<"m">>
    ELSE FormatPlusD(delay[1]) \o <<"s">>

\* pickString
pickStringNoTrim(primary, fallback) ==
    IF primary # <<>> THEN primary
    ELSE IF fallback # <<>> THEN fallback
    ELSE <<"-">>

pickString(primary, fallback) ==
    IF TrimSpace(primary) # <<>> THEN primary
    ELSE IF TrimSpace(fallback) # <<>> THEN fallback
    ELSE <<"-">>

\* pickTime
pickTime(primary, fallback) ==
    IF TrimSpace(primary) # <<>> THEN primary
    ELSE IF TrimSpace(fallback) # <<>> THEN fallback
    ELSE <<"-">>

\* locationName
locationName(loc) ==
    IF loc = <<>> THEN <<"-">>
    ELSE IF TrimSpace(loc[1].Name) # <<>> THEN loc[1].Name
    ELSE loc[1].ID

----------------------------------------------------------------------------
(* internal/format: the formatters *)

\* fmt.Sprintf("%s\t%s...\n", fields...)
RECURSIVE JoinTab(_)
JoinTab(fields) ==
    IF fields = <<>> THEN <<>>
    ELSE IF Len(fields) = 1 THEN fields[1]
    ELSE fields[1] \o <<"\t">> \o JoinTab(Tail(fields))

RowSkipEmpty(fields) == JoinTab(SelectSeq(fields, LAMBDA f : f # <<>>)) \o <<"\n">>

Row(fields) == JoinTab(fields) \o <<"\n">>

NoResults == <<"no results", "\n">>

LocationsHeader ==
    Row(<<(<<"id">>), <<"name">>, <<"type">>, <<"latitude">>, <<"longitude">>,
          <<"distance_m">>>>)
StopoversHeader ==
    Row(<<(<<"time">>), <<"line">>, <<"direction">>, <<"platform">>, <<"delay">>,
          <<"status">>>>)
JourneysHeader ==
    Row(<<(<<"departure">>), <<"origin">>, <<"arrival">>, <<"destination">>,
          <<"transfers">>>>)
TripHeader ==
    Row(<<(<<"line">>), <<"stop">>, <<"arrival">>, <<"departure">>, <<"platform">>>>)
RadarHeader ==
    Row(<<(<<"line">>), <<"direction">>, <<"latitude">>, <<"longitude">>>>)

\* What a formatter returns, and the record sequence it decoded.
Formatted(out, err, records) == [out |-> out, err |-> err, records |-> records]

\* LocationsPlain
LocationsPlain(data, withHeader) ==
    LET d == Decode(TSlice(Location), data)
        locations == d.v
        row(loc) == Row(<<loc.ID, loc.Name, loc.Type, formatFloat(loc.Latitude),
                          formatFloat(loc.Longitude), formatInt(loc.Distance)>>)
    IN  IF d.err # "" THEN Formatted(<<>>, d.err, <<>>)
        ELSE IF Len(locations) = 0
        THEN Formatted(IF withHeader THEN NoResults ELSE <<>>, "", locations)
        ELSE Formatted((IF withHeader THEN LocationsHeader ELSE <<>>)
                       \o Flatten([i \in 1..Len(locations) |-> row(locations[i])]),
                       "", locations)

\* StopoversPlain
StopoversPlain(data, withHeader) ==
    LET d == Decode(TSlice(Stopover), data)
        stopovers == d.v
        row(st) == Row(<<pickTime(st.When, st.PlannedWhen), st.Line.Name, st.Direction,
                         pickString(st.Platform, st.PlannedPlatform),
                         formatDelay(st.Delay),
                         IF st.Cancelled THEN <<"cancelled">> ELSE <<"-">>>>)
    IN  IF d.err # "" THEN Formatted(<<>>, d.err, <<>>)
        ELSE IF Len(stopovers) = 0
        THEN Formatted(IF withHeader THEN NoResults ELSE <<>>, "", stopovers)
        ELSE Formatted((IF withHeader THEN StopoversHeader ELSE <<>>)
                       \o Flatten([i \in 1..Len(stopovers) |-> row(stopovers[i])]),
                       "", stopovers)

\* JourneysPlain
JourneysPlainBlankRow(data, withHeader) ==
    LET d == Decode(JourneysResponse, data)
        journeys == d.v.Journeys
        row(journey) ==
            IF Len(journey.Legs) = 0
            THEN Row(<<(<<>>), <<>>, <<>>, <<>>, FormatD(journey.Transfers)>>)
            ELSE LET first == journey.Legs[1]
                     last == journey.Legs[Len(journey.Legs)]
                 IN  Row(<<pickTime(first.Departure, first.PlannedDep),
                           locationName(first.Origin),
                           pickTime(last.Arrival, last.PlannedArr),
                           locationName(last.Destination),
                           FormatD(journey.Transfers)>>)
    IN  IF d.err # "" THEN Formatted(<<>>, d.err, <<>>)
        ELSE IF Len(journeys) = 0
        THEN Formatted(IF withHeader THEN NoResults ELSE <<>>, "", journeys)
        ELSE Formatted((IF withHeader THEN JourneysHeader ELSE <<>>)
                       \o Flatten([i \in 1..Len(journeys) |-> row(journeys[i])]),
                       "", journeys)

JourneysPlainCountsRows(data, withHeader) ==
    LET d == Decode(JourneysResponse, data)
        journeys == d.v.Journeys
        row(journey) ==
            IF Len(journey.Legs) = 0 THEN <<>>
            ELSE LET first == journey.Legs[1]
                     last == journey.Legs[Len(journey.Legs)]
                 IN  Row(<<pickTime(first.Departure, first.PlannedDep),
                           locationName(first.Origin),
                           pickTime(last.Arrival, last.PlannedArr),
                           locationName(last.Destination),
                           FormatD(journey.Transfers)>>)
        rows == Flatten([i \in 1..Len(journeys) |-> row(journeys[i])])
    IN  IF d.err # "" THEN Formatted(<<>>, d.err, <<>>)
        ELSE IF rows = <<>>
        THEN Formatted(IF withHeader THEN NoResults ELSE <<>>, "", journeys)
        ELSE Formatted((IF withHeader THEN JourneysHeader ELSE <<>>) \o rows, "", journeys)

JourneysPlain(data, withHeader) ==
    LET d == Decode(JourneysResponse, data)
        journeys == d.v.Journeys
        row(journey) ==
            IF Len(journey.Legs) = 0 THEN <<>>
            ELSE LET first == journey.Legs[1]
                     last == journey.Legs[Len(journey.Legs)]
                 IN  Row(<<pickTime(first.Departure, first.PlannedDep),
                           locationName(first.Origin),
                           pickTime(last.Arrival, last.PlannedArr),
                           locationName(last.Destination),
                           FormatD(journey.Transfers)>>)
    IN  IF d.err # "" THEN Formatted(<<>>, d.err, <<>>)
        ELSE IF Len(journeys) = 0
        THEN Formatted(IF withHeader THEN NoResults ELSE <<>>, "", journeys)
        ELSE Formatted((IF withHeader THEN JourneysHeader ELSE <<>>)
                       \o Flatten([i \in 1..Len(journeys) |-> row(journeys[i])]),
                       "", journeys)

\* TripPlain
TripPlainNoEmptyCheck(data, withHeader) ==
    LET d == Decode(TripResponse, data)
        trip == d.v.Trip
        row(stop) == Row(<<trip.Line.Name, stop.Stop.Name,
                           pickTime(stop.Arrival, stop.PlannedArrival),
                           pickTime(stop.Departure, stop.PlannedDeparture),
                           pickString(stop.Platform, stop.PlannedPlatform)>>)
    IN  IF d.err # "" THEN Formatted(<<>>, d.err, <<>>)
        ELSE Formatted((IF withHeader THEN TripHeader ELSE <<>>)
                       \o Flatten([i \in 1..Len(trip.Stopovers) |-> row(trip.Stopovers[i])]),
                       "", trip.Stopovers)

TripPlain(data, withHeader) ==
    LET d == Decode(TripResponse, data)
        trip == d.v.Trip
        row(stop) == Row(<<trip.Line.Name, stop.Stop.Name,
                           pickTime(stop.Arrival, stop.PlannedArrival),
                           pickTime(stop.Departure, stop.PlannedDeparture),
                           pickString(stop.Platform, stop.PlannedPlatform)>>)
    IN  IF d.err # "" THEN Formatted(<<>>, d.err, <<>>)
        ELSE IF Len(trip.Stopovers) = 0
        THEN Formatted(IF withHeader THEN NoResults ELSE <<>>, "", trip.Stopovers)
        ELSE Formatted((IF withHeader THEN TripHeader ELSE <<>>)
                       \o Flatten([i \in 1..Len(trip.Stopovers) |-> row(trip.Stopovers[i])]),
                       "", trip.Stopovers)

\* RadarPlain
RadarPlain(data, withHeader) ==
    LET d == Decode(RadarResponse, data)
        movements == d.v.Movements
        row(movement) == Row(<<movement.Line.Name, movement.Direction,
                               formatFloat(movement.Location.Latitude),
                               formatFloat(movement.Location.Longitude)>>)
    IN  IF d.err # "" THEN Formatted(<<>>, d.err, <<>>)
        ELSE IF Len(movements) = 0
        THEN Formatted(IF withHeader THEN NoResults ELSE <<>>, "", movements)
        ELSE Formatted((IF withHeader THEN RadarHeader ELSE <<>>)
                       \o Flatten([i \in 1..Len(movements) |-> row(movements[i])]),
                       "", movements)

----------------------------------------------------------------------------
(* The payloads the formatters are given *)

WhenText == <<"2024-01-01T12:00:00+01:00">>

LocationJSONs ==
    {JObj(<<(<<"id", JStr(<<"123">>)>>), <<"name", JStr(<<"Berlin Hbf">>)>>,
            <<"type", JStr(<<"station">>)>>, <<"latitude", JNum(52525000)>>,
            <<"longitude", JNum(13369000)>>, <<"distance", JInt(120)>>>>),
     JObj(<<(<<"id", JStr(<<"9">>)>>), <<"name", JNull>>, <<"latitude", JNull>>>>),
     JObj(<<(<<"id", JStr(<<"7">>)>>), <<"name", JStr(<<"a", "\t", "b">>)>>,
            <<"type", JStr(<<"stop">>)>>>>),
     JObj(<<>>)}

StopoverJSONs ==
    {JObj(<<(<<"when", JStr(WhenText)>>), <<"line", JObj(<<(<<"name", JStr(<<"S1">>)>>)>>)>>,
            <<"direction", JStr(<<"Frohnau">>)>>, <<"platform", JStr(<<"1">>)>>,
            <<"delay", JInt(120)>>, <<"cancelled", JBool(FALSE)>>>>),
     JObj(<<(<<"when", JStr(WhenText)>>), <<"line", JObj(<<(<<"name", JStr(<<"S1">>)>>)>>)>>,
            <<"direction", JStr(<<"Frohnau">>)>>, <<"platform", JStr(<<"1">>)>>,
            <<"delay", JInt(0)>>, <<"cancelled", JBool(FALSE)>>>>),
     JObj(<<(<<"when", JNull>>), <<"plannedWhen", JStr(WhenText)>>,
            <<"plannedPlatform", JStr(<<" ">>)>>, <<"delay", JInt(0 - 90)>>,
            <<"cancelled", JBool(TRUE)>>>>),
     JObj(<<>>)}

LegJSON(from, to) ==
    JObj(<<(<<"origin", JObj(<<(<<"id", JStr(<<"1">>)>>), <<"name", JStr(from)>>>>)>>),
           <<"destination", JObj(<<(<<"id", JStr(<<"2">>)>>), <<"name", JStr(to)>>>>)>>,
           <<"departure", JStr(WhenText)>>, <<"plannedArrival", JStr(WhenText)>>>>)

JourneyJSONs ==
    {JObj(<<(<<"transfers", JInt(0)>>)>>),
     JObj(<<(<<"legs", JArr(<<>>)>>)>>),
     JObj(<<(<<"legs", JArr(<<LegJSON(<<"Berlin">>, <<"Hamburg">>)>>)>>),
            <<"transfers", JInt(0)>>>>),
     JObj(<<(<<"legs", JArr(<<LegJSON(<<"Berlin">>, <<" ">>),
                              LegJSON(<<>>, <<"Hamburg">>)>>)>>),
            <<"transfers", JInt(1)>>>>)}

TripStopJSONs ==
    {JObj(<<(<<"stop", JObj(<<(<<"name", JStr(<<"Berlin Hbf">>)>>)>>)>>),
            <<"arrival", JStr(WhenText)>>, <<"plannedDeparture", JStr(WhenText)>>,
            <<"platform", JStr(<<"1">>)>>>>),
     JObj(<<>>)}

MovementJSONs ==
    {JObj(<<(<<"line", JObj(<<(<<"name", JStr(<<"S1">>)>>)>>)>>),
            <<"direction", JStr(<<"Frohnau">>)>>,
            <<"location", JObj(<<(<<"latitude", JNum(52525000)>>),
                                 <<"longitude", JNum(0 - 500000)>>>>)>>>>),
     JObj(<<(<<"line", JObj(<<(<<"name", JStr(<<"S2">>)>>)>>)>>),
            <<"direction", JStr(<<"a", "\n", "b">>)>>>>),
     JObj(<<>>)}

\* Arrays of at most MaxRecords records, and one with an element that is
\* no record.
Arrays(S) == {JArr(a) : a \in SeqsUpTo(S, MaxRecords)} \cup {JArr(<<JInt(5)>>)}

\* Text that is no JSON, and JSON values that are neither array nor object.
NoJSON == {JInvalid}
Scalars == {JNull, JInt(5), JStr(<<"x">>)}

Envelope(tag, values) == {JObj(<<(<<tag, v>>)>>) : v \in values}

TripJSONs ==
    {JNull, JInt(5), JArr(<<>>), JObj(<<>>),
     JObj(<<(<<"line", JObj(<<(<<"name", JStr(<<"ICE 1">>)>>)>>)>>)>>)}
    \cup {JObj(<<(<<"line", JObj(<<(<<"name", JStr(<<"ICE 1">>)>>)>>)>>),
                 <<"stopovers", v>>>>) :
             v \in {JNull, JInt(5)} \cup Arrays(TripStopJSONs)}

Endpoints == {"locations", "stopovers", "journeys", "trip", "radar"}

Payloads(e) ==
    NoJSON \cup Scalars \cup {JObj(<<>>), JArr(<<>>)} \cup
    CASE e = "locations" -> Arrays(LocationJSONs)
      [] e = "stopovers" ->
            Arrays(StopoverJSONs) \cup Envelope("departures", Arrays(StopoverJSONs))
      [] e = "journeys" ->
            Envelope("journeys", {JNull, JInt(5), JObj(<<>>)} \cup Arrays(JourneyJSONs))
      [] e = "trip" -> Envelope("trip", TripJSONs)
      [] e = "radar" ->
            Envelope("movements", {JNull, JInt(5), JObj(<<>>)} \cup Arrays(MovementJSONs))

FormatInit ==
    /\ URLOff /\ GetOff /\ DelayOff /\ RunOff /\ PickOff /\ UseOff
    /\ fpc = "call"
    /\ endpoint \in Endpoints
    /\ payload \in Payloads(endpoint)
    /\ header \in BOOLEAN
    /\ fout = <<>> /\ ferr = "" /\ decoded = <<>>

\* The formatter returns.
Return(r) ==
    /\ fout' = r.out
    /\ ferr' = r.err
    /\ decoded' = r.records
    /\ fpc' = "done"
    /\ UNCHANGED <<endpoint, payload, header>>
    /\ UNCHANGED <<urlVars, getVars, dlyVars, runVars, pickVars, useVars>>

CallLocationsPlain ==
    fpc = "call" /\ endpoint = "locations" /\ Return(LocationsPlain(payload, header))

CallStopoversPlain ==
    fpc = "call" /\ endpoint = "stopovers" /\ Return(StopoversPlain(payload, header))

CallJourneysPlain ==
    fpc = "call" /\ endpoint = "journeys" /\ Return(JourneysPlain(payload, header))

CallTripPlain ==
    fpc = "call" /\ endpoint = "trip" /\ Return(TripPlain(payload, header))

CallRadarPlain ==
    fpc = "call" /\ endpoint = "radar" /\ Return(RadarPlain(payload, header))

FormatNext ==
    \/ CallLocationsPlain
    \/ CallStopoversPlain
    \/ CallJourneysPlain
    \/ CallTripPlain
    \/ CallRadarPlain

SpecFormat == FormatInit /\ [][FormatNext]_vars

\* Whether every member of an object with the tag is null: so when the
\* object has no such member.
AbsentOrNull(members, tag) ==
    \A i \in 1..Len(members) : members[i][1] = tag => members[i][2] = JNull

EmptyResult(h) == IF h THEN NoResults ELSE <<>>

IsDeparturesEnvelope(j) ==
    /\ j.k = "obj"
    /\ Len(j.members) = 1
    /\ j.members[1][1] = "departures"
    /\ j.members[1][2].k = "arr"

\* C6: StopoversPlain gives for {"departures": [records]} the text, and no
\* error, that it gives for the bare array [records], with and without
\* header.
C6_EnvelopeAsBare ==
    (fpc = "done" /\ endpoint = "stopovers" /\ IsDeparturesEnvelope(payload)) =>
        /\ ferr = ""
        /\ fout = StopoversPlain(payload.members[1][2], header).out
        /\ StopoversPlain(payload.members[1][2], header).err = ""

\* The kinds of JSON value an endpoint's payload may be: an array for
\* locations, an array or the envelope object for stopovers, an object for
\* the others.
TopLevelKinds(e) ==
    CASE e = "locations" -> {"arr"}
      [] e = "stopovers" -> {"arr", "obj"}
      [] OTHER -> {"obj"}

\* C7: a payload that is no JSON, or whose top-level value is of another
\* kind than the endpoint's (a null too), gives an error, never the empty
\* result.
C7_WrongKindIsError ==
    (fpc = "done" /\ payload.k \notin TopLevelKinds(endpoint)) =>
        /\ ferr # ""
        /\ ~(ferr = "" /\ fout = EmptyResult(header))

\* The payload of an enveloped endpoint is an object without its envelope
\* member, or with a null for it ("trip", or "stopovers" in the trip).
LacksEnvelope ==
    /\ payload.k = "obj"
    /\ CASE endpoint = "journeys" -> AbsentOrNull(payload.members, "journeys")
         [] endpoint = "radar" -> AbsentOrNull(payload.members, "movements")
         [] endpoint = "trip" ->
               \A i \in 1..Len(payload.members) :
                   payload.members[i][1] = "trip" =>
                       \/ payload.members[i][2] = JNull
                       \/ /\ payload.members[i][2].k = "obj"
                          /\ AbsentOrNull(payload.members[i][2].members, "stopovers")
         [] OTHER -> FALSE

\* C8: for journeys, trip and radar, an object without the envelope member,
\* or with a null one, decodes to no records without error and gives the
\* empty result.
C8_MissingEnvelopeIsEmpty ==
    (fpc = "done" /\ LacksEnvelope) =>
        /\ ferr = ""
        /\ decoded = <<>>
        /\ fout = EmptyResult(header)

\* A trip with a line and no "stopovers".
C8_Witness ==
    /\ fpc = "done"
    /\ endpoint = "trip"
    /\ payload = JObj(<<(<<"trip",
                   JObj(<<(<<"line", JObj(<<(<<"name", JStr(<<"ICE 1">>)>>)>>)>>)>>)>>)>>)
    /\ header
    /\ ferr = ""
    /\ fout = NoResults

\* C9: when the decoded record sequence is empty, a formatter returns
\* exactly "no results\n" with header and exactly "" without.
C9_EmptyResult ==
    (fpc = "done" /\ ferr = "" /\ Len(decoded) = 0) =>
        IF header THEN fout = <<"no results", "\n">> ELSE fout = <<>>

\* Each formatter on an empty record sequence, with header.
C9_Witness ==
    /\ fpc = "done"
    /\ endpoint = "stopovers"
    /\ payload = JArr(<<>>)
    /\ header
    /\ ferr = ""
    /\ decoded = <<>>
    /\ fout = <<"no results", "\n">>

\* The journeys of a payload that JourneysPlain decoded to a non-empty
\* list, and the payload with the journeys that have no legs taken out.
JourneyItems(data) == Member(data.members, "journeys").items
HasLegs(j) == Decode(Journey, j).v.Legs # <<>>
WithoutLegless(data) ==
    JObj(<<(<<"journeys", JArr(SelectSeq(JourneyItems(data), HasLegs))>>)>>)

\* The lines of a text, counted by their terminators.
Lines(text) == Cardinality({i \in 1..Len(text) : text[i] = "\n"})

\* C12: a journey with zero legs contributes no line to what JourneysPlain
\* returns, and the lines of the other journeys are the ones, in the same
\* order, that the input without the leg-less journeys gives (none at all
\* when no journey has legs).
C12_LeglessSkipped ==
    (fpc = "done" /\ endpoint = "journeys" /\ ferr = "" /\ decoded # <<>>) =>
        LET kept == SelectSeq(JourneyItems(payload), HasLegs)
            head == IF header THEN JourneysHeader ELSE <<>>
        IN  /\ Lines(fout) = Lines(head) + Len(kept)
            /\ SubSeq(fout, 1, Len(head)) = head
            /\ fout = IF kept = <<>> THEN head
                      ELSE JourneysPlain(WithoutLegless(payload), header).out

\* A journey without legs ahead of one with two legs: its row alone.
C12_Witness ==
    /\ fpc = "done"
    /\ endpoint = "journeys"
    /\ ~header
    /\ Len(decoded) = 2
    /\ decoded[1].Legs = <<>>
    /\ Len(decoded[2].Legs) = 2
    /\ fout = <<"2024-01-01T12:00:00+01:00", "\t", "Berlin", "\t",
                "2024-01-01T12:00:00+01:00", "\t", "Hamburg", "\t", "1", "\n">>

\* A text cut at every separator, and the lines and fields of a table.
RECURSIVE Split(_, _)
Split(text, sep) ==
    LET at == {i \in 1..Len(text) : text[i] = sep}
    IN  IF at = {} THEN <<text>>
        ELSE LET i == CHOOSE k \in at : \A j \in at : k <= j
             IN  <<SubSeq(text, 1, i - 1)>> \o Split(SubSeq(text, i + 1, Len(text)), sep)

TableLines(text) ==
    LET parts == Split(text, "\n")
    IN  IF parts[Len(parts)] = <<>> THEN SubSeq(parts, 1, Len(parts) - 1) ELSE parts

TableFields(line) == Split(line, "\t")

\* The rows of what a formatter returned: its lines after the header.
TableRows == LET ls == TableLines(fout) IN IF header THEN Tail(ls) ELSE ls

\* C13: every field of every row of a table holds a value or "-": it is
\* never empty and never blank, whichever fields the record lacks.
C13_MissingIsDash ==
    (fpc = "done" /\ ferr = "" /\ decoded # <<>>) =>
        \A i \in 1..Len(TableRows) :
            \A k \in 1..Len(TableFields(TableRows[i])) :
                ~IsBlank(TableFields(TableRows[i])[k])

\* The number of columns of an endpoint's table, and its header line.
Columns(e) ==
    CASE e \in {"locations", "stopovers"} -> 6
      [] e \in {"journeys", "trip"} -> 5
      [] e = "radar" -> 4

HeaderOf(e) ==
    CASE e = "locations" -> LocationsHeader
      [] e = "stopovers" -> StopoversHeader
      [] e = "journeys" -> JourneysHeader
      [] e = "trip" -> TripHeader
      [] e = "radar" -> RadarHeader

EndpointPlain(e, data, withHeader) ==
    CASE e = "locations" -> LocationsPlain(data, withHeader)
      [] e = "stopovers" -> StopoversPlain(data, withHeader)
      [] e = "journeys" -> JourneysPlain(data, withHeader)
      [] e = "trip" -> TripPlain(data, withHeader)
      [] e = "radar" -> RadarPlain(data, withHeader)

\* The records of a payload that decoded to a non-empty list, and the
\* payload with other records in their place.
Items(e, data) ==
    CASE e \in {"locations", "stopovers"} -> data.items
      [] e = "journeys" -> Member(data.members, "journeys").items
      [] e = "radar" -> Member(data.members, "movements").items
      [] e = "trip" -> Member(Member(data.members, "trip").members, "stopovers").items

WithItems(e, data, items) ==
    CASE e \in {"locations", "stopovers"} -> JArr(items)
      [] e = "journeys" -> JObj(<<(<<"journeys", JArr(items)>>)>>)
      [] e = "radar" -> JObj(<<(<<"movements", JArr(items)>>)>>)
      [] e = "trip" ->
            LET ms == Member(data.members, "trip").members
            IN  JObj(<<(<<"trip",
                         JObj([i \in 1..Len(ms) |->
                                  IF ms[i][1] = "stopovers"
                                  THEN <<"stopovers", JArr(items)>> ELSE ms[i]])>>)>>)

\* The records that are given a line: all of them, but for journeys only
\* those with legs.
Rendered(e, data) ==
    IF e = "journeys" THEN SelectSeq(Items(e, data), HasLegs) ELSE Items(e, data)

\* A JSON value with a string that holds a tab or a newline.
RECURSIVE HasSeparator(_)
HasSeparator(j) ==
    CASE j.k = "str" -> \E i \in 1..Len(j.s) : j.s[i] \in {"\t", "\n"}
      [] j.k = "arr" -> \E i \in 1..Len(j.items) : HasSeparator(j.items[i])
      [] j.k = "obj" -> \E i \in 1..Len(j.members) : HasSeparator(j.members[i][2])
      [] OTHER -> FALSE

HeaderLines == IF header THEN 1 ELSE 0

\* C14, as first stated: the output is the optional header and then one
\* line per record, and every line has the endpoint's number of
\* tab-separated fields, whatever the records hold.
C14_Original ==
    (fpc = "done" /\ ferr = "" /\ decoded # <<>>) =>
        /\ Len(TableLines(fout)) = HeaderLines + Len(decoded)
        /\ \A i \in 1..Len(TableLines(fout)) :
               Len(TableFields(TableLines(fout)[i])) = Columns(endpoint)

\* C14: when no string of the payload holds a tab or a newline, the output
\* is the optional header and then one newline-terminated line per record
\* (per journey with legs), in the order of the input, and every line has
\* the endpoint's number of tab-separated fields, whichever optional fields
\* the records hold.
C14_FixedColumns ==
    (fpc = "done" /\ ferr = "" /\ decoded # <<>> /\ ~HasSeparator(payload)) =>
        LET items == Rendered(endpoint, payload)
            ls == TableLines(fout)
        IN  /\ Len(ls) = HeaderLines + Len(items)
            /\ fout # <<>> => fout[Len(fout)] = "\n"
            /\ header => SubSeq(fout, 1, Len(HeaderOf(endpoint))) = HeaderOf(endpoint)
            /\ \A i \in 1..Len(ls) : Len(TableFields(ls[i])) = Columns(endpoint)
            /\ \A i \in 1..Len(items) :
                   TableRows[i] \o <<"\n">> =
                       EndpointPlain(endpoint, WithItems(endpoint, payload, <<items[i]>>),
                                     FALSE).out

\* A full location and one with no field at all, under the header: three
\* lines of six fields.
C14_Witness ==
    /\ fpc = "done"
    /\ endpoint = "locations"
    /\ header
    /\ Len(decoded) = 2
    /\ decoded[1].Name = <<"Berlin Hbf">>
    /\ decoded[2].ID = <<>>
    /\ decoded[2].Latitude = <<>>
    /\ Len(TableLines(fout)) = 3
    /\ Len(TableFields(TableLines(fout)[3])) = 6

\* C23: when JourneysPlain decoded at least one journey and none of them
\* has legs, it returns the header line alone with the header, and the
\* empty string without it; never "no results".
C23_AllLeglessHeaderOnly ==
    (/\ fpc = "done" /\ endpoint = "journeys" /\ ferr = ""
     /\ decoded # <<>>
     /\ \A i \in 1..Len(decoded) : decoded[i].Legs = <<>>) =>
        fout = IF header
               THEN <<"departure", "\t", "origin", "\t", "arrival", "\t", "destination",
                      "\t", "transfers", "\n">>
               ELSE <<>>

\* Two journeys, one without the legs field and one with legs [], under
\* the header.
C23_Witness ==
    /\ fpc = "done"
    /\ endpoint = "journeys"
    /\ header
    /\ payload = JObj(<<(<<"journeys", JArr(<<JObj(<<(<<"transfers", JInt(0)>>)>>),
                                               JObj(<<(<<"legs", JArr(<<>>)>>)>>)>>)>>)>>)
    /\ Len(decoded) = 2
    /\ fout = JourneysHeader

----------------------------------------------------------------------------
(* formatDelay alone *)

\* The delays of a stopover: none, or a number of seconds either way.
Delays == {<<>>} \cup {<<n>> : n \in (0 - MaxDelay)..MaxDelay}

DelayInit ==
    /\ URLOff /\ GetOff /\ FormatOff /\ RunOff /\ PickOff /\ UseOff
    /\ dpc = "call"
    /\ delayPtr \in Delays
    /\ delayText = <<>>

\* formatDelay(s.Delay), as StopoversPlain calls it for a row.
CallFormatDelay ==
    /\ dpc = "call"
    /\ delayText' = formatDelay(delayPtr)
    /\ dpc' = "done"
    /\ UNCHANGED delayPtr
    /\ UNCHANGED <<urlVars, getVars, fmtVars, runVars, pickVars, useVars>>

SpecDelay == DelayInit /\ [][CallFormatDelay]_vars

\* What a reader takes a delay text for: the number its decimal digits
\* denote, and the seconds that a sign, the digits and the unit stand for.
DigitValue(c) ==
    CASE c = "0" -> 0 [] c = "1" -> 1 [] c = "2" -> 2 [] c = "3" -> 3 [] c = "4" -> 4
      [] c = "5" -> 5 [] c = "6" -> 6 [] c = "7" -> 7 [] c = "8" -> 8 [] c = "9" -> 9

IsNumeral(s) ==
    /\ s # <<>>
    /\ \A i \in 1..Len(s) : s[i] \in {"0", "1", "2", "3", "4", "5", "6", "7", "8", "9"}
    /\ (Len(s) > 1 => s[1] # "0")

RECURSIVE NumeralValue(_)
NumeralValue(s) ==
    IF s = <<>> THEN 0
    ELSE 10 * NumeralValue(SubSeq(s, 1, Len(s) - 1)) + DigitValue(s[Len(s)])

\* text is an explicit sign, a numeral and the unit, and stands for d seconds.
IsSigned(text, unit, perUnit, d) ==
    /\ Len(text) >= 3
    /\ text[1] = (IF d < 0 THEN "-" ELSE "+")
    /\ text[Len(text)] = unit
    /\ IsNumeral(SubSeq(text, 2, Len(text) - 1))
    /\ (IF d < 0 THEN 0 - 1 ELSE 1) * perUnit
           * NumeralValue(SubSeq(text, 2, Len(text) - 1)) = d

\* C10: formatDelay returns for every delay, and what it returns stands for
\* the delay exactly: "-" for none, "0m" for 0, signed whole minutes and "m"
\* for another multiple of 60, signed whole seconds and "s" for the rest.
C10_FormatDelay ==
    /\ dpc = "call" => ENABLED CallFormatDelay
    /\ dpc = "done" =>
          IF delayPtr = <<>> THEN delayText = <<"-">>
          ELSE LET d == delayPtr[1]
               IN  IF d = 0 THEN delayText = <<"0", "m">>
                   ELSE IF d % 60 = 0 THEN IsSigned(delayText, "m", 60, d)
                   ELSE IsSigned(delayText, "s", 1, d)

\* A minute and a half early is "-90s", not a rounded number of minutes.
C10_Witness ==
    /\ dpc = "done"
    /\ delayPtr = <<0 - 90>>
    /\ delayText = <<"-", "9", "0", "s">>

----------------------------------------------------------------------------
(* pickString and pickTime alone *)

\* The strings handed to them: every text of up to MaxPickLen characters
\* out of white space, a letter and the sentinel's own character.
PickChars == {" ", "\t", "a", "-"}
PickTexts == SeqsUpTo(PickChars, MaxPickLen)

PickInit ==
    /\ URLOff /\ GetOff /\ FormatOff /\ DelayOff /\ RunOff /\ UseOff
    /\ ppc = "call"
    /\ pickFn \in {"pickString", "pickTime"}
    /\ pickArgs \in PickTexts \X PickTexts
    /\ picked = <<>>

\* pickString(s.Platform, s.PlannedPlatform), as a formatter calls it.
CallPickString ==
    /\ ppc = "call"
    /\ pickFn = "pickString"
    /\ picked' = pickString(pickArgs[1], pickArgs[2])
    /\ ppc' = "done"
    /\ UNCHANGED <<pickFn, pickArgs>>
    /\ UNCHANGED <<urlVars, getVars, fmtVars, dlyVars, runVars, useVars>>

\* pickTime(s.When, s.PlannedWhen), as a formatter calls it.
CallPickTime ==
    /\ ppc = "call"
    /\ pickFn = "pickTime"
    /\ picked' = pickTime(pickArgs[1], pickArgs[2])
    /\ ppc' = "done"
    /\ UNCHANGED <<pickFn, pickArgs>>
    /\ UNCHANGED <<urlVars, getVars, fmtVars, dlyVars, runVars, useVars>>

PickNext == CallPickString \/ CallPickTime

SpecPick == PickInit /\ [][PickNext]_vars

\* C11: pickString and pickTime return the primary value as it is when it
\* is not blank, otherwise the fallback as it is when that is not blank,
\* otherwise "-"; the call always returns, and what it returns is never
\* blank.
C11_PickPrecedence ==
    /\ ppc = "call" => ENABLED PickNext
    /\ ppc = "done" =>
           /\ picked = IF ~IsBlank(pickArgs[1]) THEN pickArgs[1]
                        ELSE IF ~IsBlank(pickArgs[2]) THEN pickArgs[2]
                        ELSE <<"-">>
           /\ ~IsBlank(picked)

\* A primary of white space only: the padded fallback comes back untrimmed.
C11_Witness ==
    /\ ppc = "done"
    /\ pickFn = "pickString"
    /\ pickArgs = <<(<<" ", "\t">>), (<<" ", "a">>)>>
    /\ picked = <<" ", "a">>

----------------------------------------------------------------------------
(* internal/cli: the command line *)

exitOK == 0
exitError == 1
exitUsage == 2

\* A command-line argument is a flag with the value given to it ("--name
\* value" or "--name=value"; a boolean flag has none) or a word that is no
\* flag.
FlagArg(name, value) == [kind |-> "flag", name |-> name, value |-> value]
BoolArg(name) == [kind |-> "flag", name |-> name, value |-> <<>>]
WordArg(text) == [kind |-> "word", name |-> "", value |-> text]

IsDigits(s) ==
    s # <<>> /\ \A i \in 1..Len(s) : s[i] \in {"0", "1", "2", "3", "4", "5", "6", "7", "8", "9"}

\* flag.Value.Set of a flag of type ty: whether it takes the value (strconv
\* for int and floatFlag, paramList.Set for param).
SetOK(ty, v) ==
    CASE ty = "int" -> IsDigits(v)
      [] ty = "float" -> IsDigits(v)
      [] ty = "param" -> TrimSpace(v) # <<>>
      [] OTHER -> TRUE

\* flag.FlagSet.Parse: the flags up to the first word are set in their order;
\* a flag that is not defined, or a value the flag does not take, ends the
\* parse with an error.  err is <<>> for nil.
RECURSIVE ParseFlags(_, _, _)
ParseFlags(defined, toks, seen) ==
    IF toks = <<>> \/ Head(toks).kind = "word"
    THEN [err |-> <<>>, seen |-> seen, rest |-> toks]
    ELSE IF Head(toks).name \notin DOMAIN defined
    THEN [err |-> <<"flag provided but not defined: -", Head(toks).name>>,
          seen |-> seen, rest |-> Tail(toks)]
    ELSE IF ~SetOK(defined[Head(toks).name], Head(toks).value)
    THEN [err |-> <<"invalid value for flag -", Head(toks).name>>,
          seen |-> seen, rest |-> Tail(toks)]
    ELSE ParseFlags(defined, Tail(toks), Append(seen, Head(toks)))

\* The variables the flags are bound to, after the parse.
IsSet(seen, names) == \E i \in 1..Len(seen) : seen[i].name \in names
StringVar(seen, name, default) ==
    LET at == {i \in 1..Len(seen) : seen[i].name = name}
    IN  IF at = {} THEN default ELSE seen[CHOOSE i \in at : \A j \in at : j <= i].value
IntVar(seen, name, default) ==
    IF IsSet(seen, {name}) THEN NumeralValue(StringVar(seen, name, <<>>)) ELSE default
RECURSIVE paramList(_)
paramList(seen) ==
    IF seen = <<>> THEN <<>>
    ELSE (IF Head(seen).name = "param" THEN <<Head(seen).value>> ELSE <<>>)
         \o paramList(Tail(seen))

\* The flag sets.
CommonFlags == ("param" :> "param") @@ ("help" :> "bool") @@ ("h" :> "bool")
GlobalFlags ==
    ("help" :> "bool") @@ ("h" :> "bool") @@ ("version" :> "bool") @@ ("json" :> "bool")
    @@ ("plain" :> "bool") @@ ("verbose" :> "bool") @@ ("base-url" :> "string")
    @@ ("timeout" :> "string")
LocationsFlags ==
    ("query" :> "string") @@ ("results" :> "int") @@ ("fuzzy" :> "bool")
    @@ ("stops" :> "bool") @@ ("addresses" :> "bool") @@ ("poi" :> "bool") @@ CommonFlags
StopFlags ==
    ("stop" :> "string") @@ ("when" :> "string") @@ ("duration" :> "int")
    @@ ("results" :> "int") @@ ("direction" :> "string") @@ CommonFlags
JourneysFlags ==
    ("from" :> "string") @@ ("to" :> "string") @@ ("via" :> "string")
    @@ ("departure" :> "string") @@ ("arrival" :> "string") @@ ("results" :> "int")
    @@ ("transfers" :> "int") @@ CommonFlags
TripFlags == ("id" :> "string") @@ ("line-name" :> "string") @@ CommonFlags
RadarFlags ==
    ("north" :> "float") @@ ("south" :> "float") @@ ("west" :> "float")
    @@ ("east" :> "float") @@ ("results" :> "int") @@ ("duration" :> "int") @@ CommonFlags
RequestFlags == ("path" :> "string") @@ CommonFlags

\* url.Values: key -> list of values, the empty list for a key the map does
\* not hold.
RunKeys ==
    {"query", "results", "fuzzy", "stops", "addresses", "poi", "when", "duration",
     "direction", "from", "to", "via", "departure", "arrival", "transfers", "lineName",
     "north", "south", "west", "east", "k"}
NoValues == [k \in RunKeys |-> <<>>]
ValuesSet(values, key, value) == [values EXCEPT ![key] = <<value>>]
ValuesAdd(values, key, value) == [values EXCEPT ![key] = @ \o <<value>>]
SetIf(cond, values, key, value) == IF cond THEN ValuesSet(values, key, value) ELSE values

\* strings.SplitN(item, "=", 2): the place of the first "=", 0 for none.
FirstEq(item) ==
    IF \E i \in 1..Len(item) : item[i] = "="
    THEN CHOOSE i \in 1..Len(item) : item[i] = "=" /\ \A j \in 1..(i - 1) : item[j] # "="
    ELSE 0

\* addParams: [err, values], err <<>> for nil.  (The keys of the model are
\* one token long.)
RECURSIVE addParams(_, _)
addParams(values, items) ==
    IF items = <<>> THEN [err |-> <<>>, values |-> values]
    ELSE LET item == Head(items)
             eq == FirstEq(item)
         IN  IF eq = 0 \/ TrimSpace(SubSeq(item, 1, eq - 1)) = <<>>
             THEN [err |-> <<"invalid --param ">> \o item \o <<" (expected key=value)">>,
                   values |-> values]
             ELSE addParams(ValuesAdd(values, item[1], SubSeq(item, eq + 1, Len(item))),
                            Tail(items))

\* url.PathEscape
PathEscapeChar(c) ==
    CASE c = "/" -> <<"%", "2", "F">>
      [] c = "?" -> <<"%", "3", "F">>
      [] c = "%" -> <<"%", "2", "5">>
      [] c = " " -> <<"%", "2", "0">>
      [] OTHER   -> <<c>>
PathEscape(s) == Flatten([i \in 1..Len(s) |-> PathEscapeChar(s[i])])

\* strconv.Itoa, strconv.FormatBool(true), formatFloatArg of a whole number
Itoa(n) == FormatD(n)
FormatBoolTrue == <<"true">>
formatFloatArg(value) == formatFloat(<<value * 1000000>>)

\* time.ParseDuration: digits and a unit
DurationUnits == {"s", "m", "h"}
ParseDurationOK(s) ==
    \/ s = <<"0">>
    \/ Len(s) >= 2 /\ s[Len(s)] \in DurationUnits /\ IsDigits(SubSeq(s, 1, Len(s) - 1))
ParseDuration(s) ==
    IF s = <<"0">> THEN 0
    ELSE NumeralValue(SubSeq(s, 1, Len(s) - 1))
         * (CASE s[Len(s)] = "s" -> 1 [] s[Len(s)] = "m" -> 60 [] OTHER -> 3600)

\* envOrDefault, with an environment that sets neither DBREST_BASE_URL nor
\* DBREST_TIMEOUT.
Getenv(key) == <<>>
envOrDefault(key, fallback) ==
    IF TrimSpace(Getenv(key)) = <<>> THEN fallback ELSE TrimSpace(Getenv(key))
DefaultBaseURL == <<"https", ":", "//", "v6.db.transport.rest">>
DefaultTimeoutStr == <<"1", "0", "s">>
Version == <<"dev">>

\* The usage texts, and a line of text.
printUsage(name) == <<"usage: ", name, "\n">>
Fprintln(text) == text \o <<"\n">>

\* What a step of Run comes to: it returns with an exit code, having written
\* out and err, or it goes on with what it has worked out.
Exit(code, out, err) == [exit |-> code, out |-> out, err |-> err]
GoOn == Exit(0 - 1, <<>>, <<>>)

\* A parse error: flag.FlagSet.failf calls fs.Usage, then the caller prints
\* the error and the usage.
ParseFailed(name, err) ==
    Exit(exitUsage, <<>>, printUsage(name) \o Fprintln(err) \o printUsage(name))

\* Run, lines 89-127: the global flags.
RunGlobal(as) ==
    LET p == ParseFlags(GlobalFlags, as, <<>>)
        jsonOutput == IsSet(p.seen, {"json"})
        plain == IsSet(p.seen, {"plain"})
        timeoutStr == StringVar(p.seen, "timeout", envOrDefault("DBREST_TIMEOUT", DefaultTimeoutStr))
        baseURL == StringVar(p.seen, "base-url", envOrDefault("DBREST_BASE_URL", DefaultBaseURL))
        settings ==
            [mode |-> IF jsonOutput THEN "json" ELSE IF plain THEN "plain" ELSE "human",
             verbose |-> IsSet(p.seen, {"verbose"}),
             cfg |-> [BaseURL |-> baseURL,
                      Timeout |-> IF ParseDurationOK(timeoutStr) THEN ParseDuration(timeoutStr) ELSE 0,
                      UserAgent |-> "dbrest/dev"],
             rest |-> p.rest]
        step ==
            IF p.err # <<>> THEN ParseFailed("dbrest", p.err)
            ELSE IF IsSet(p.seen, {"help", "h"}) THEN Exit(exitOK, printUsage("dbrest"), <<>>)
            ELSE IF IsSet(p.seen, {"version"}) THEN Exit(exitOK, Fprintln(Version), <<>>)
            ELSE IF jsonOutput /\ plain
            THEN Exit(exitUsage, <<>>, Fprintln(<<"--json and --plain are mutually exclusive">>))
            ELSE IF ~ParseDurationOK(timeoutStr)
            THEN Exit(exitUsage, <<>>, <<"invalid --timeout: ">> \o timeoutStr \o <<"\n">>)
            ELSE IF Len(p.rest) = 0 THEN Exit(exitUsage, <<>>, printUsage("dbrest"))
            ELSE GoOn
    IN  [step |-> step, settings |-> settings]

Commands == {"locations", "departures", "arrivals", "journeys", "trip", "radar", "request"}

\* The text of an argument, and the command it names ("" for none).
ArgText(a) ==
    IF a.kind = "word" THEN a.value
    ELSE <<"--", a.name>> \o (IF a.value = <<>> THEN <<>> ELSE <<"=">> \o a.value)
CommandNamed(a) ==
    IF a.kind = "word" /\ Len(a.value) = 1 /\ a.value[1] \in Commands \cup {"help"}
    THEN a.value[1] ELSE ""

UnknownCommand(a) ==
    Exit(exitUsage, <<>>,
         <<"unknown command: ">> \o ArgText(a) \o <<"\n">> \o printUsage("dbrest"))

\* runHelp
runHelp(as) ==
    IF Len(as) = 0 THEN Exit(exitOK, printUsage("dbrest"), <<>>)
    ELSE IF CommandNamed(as[1]) \in Commands
    THEN Exit(exitOK, printUsage(CommandNamed(as[1])), <<>>)
    ELSE UnknownCommand(as[1])

\* What a command runner hands to runRequestWithFormatter or runRequestRaw.
Request(p, values) == [path |-> p, values |-> values]
NoRequest == Request(<<>>, NoValues)

\* The end of every command runner: addParams, then the request.
WithParams(seen, p, values) ==
    LET a == addParams(values, paramList(seen))
    IN  IF a.err # <<>>
        THEN [step |-> Exit(exitUsage, <<>>, Fprintln(a.err)), request |-> NoRequest]
        ELSE [step |-> GoOn, request |-> Request(p, a.values)]

Returns(step) == [step |-> step, request |-> NoRequest]

\* The required value of a command: its flag, or else the first word.
FlagOrWord(p, name) ==
    LET v == StringVar(p.seen, name, <<>>)
    IN  IF v = <<>> /\ Len(p.rest) > 0 THEN ArgText(p.rest[1]) ELSE v

\* runLocations, up to the request
runLocations(as) ==
    LET p == ParseFlags(LocationsFlags, as, <<>>)
        query == FlagOrWord(p, "query")
        values ==
            ValuesSet(ValuesSet(ValuesSet(ValuesSet(ValuesSet(ValuesSet(NoValues,
                "query", query),
                "results", Itoa(IntVar(p.seen, "results", 10))),
                "fuzzy", FormatBoolTrue),
                "stops", FormatBoolTrue),
                "addresses", FormatBoolTrue),
                "poi", FormatBoolTrue)
    IN  IF p.err # <<>> THEN Returns(ParseFailed("locations", p.err))
        ELSE IF IsSet(p.seen, {"help", "h"})
        THEN Returns(Exit(exitOK, printUsage("locations"), <<>>))
        ELSE IF TrimSpace(query) = <<>>
        THEN Returns(Exit(exitUsage, <<>>,
                          Fprintln(<<"missing --query">>) \o printUsage("locations")))
        ELSE WithParams(p.seen, <<"/locations">>, values)

\* runDepartures and runArrivals, up to the request: they differ in the
\* last segment of the path.
runStopovers(as, which) ==
    LET p == ParseFlags(StopFlags, as, <<>>)
        stop == FlagOrWord(p, "stop")
        when == StringVar(p.seen, "when", <<>>)
        duration == IntVar(p.seen, "duration", 0)
        results == IntVar(p.seen, "results", 0)
        direction == StringVar(p.seen, "direction", <<>>)
        values ==
            SetIf(direction # <<>>,
                  SetIf(results > 0,
                        SetIf(duration > 0,
                              SetIf(when # <<>>, NoValues, "when", when),
                              "duration", Itoa(duration)),
                        "results", Itoa(results)),
                  "direction", direction)
    IN  IF p.err # <<>> THEN Returns(ParseFailed(which, p.err))
        ELSE IF IsSet(p.seen, {"help", "h"})
        THEN Returns(Exit(exitOK, printUsage(which), <<>>))
        ELSE IF TrimSpace(stop) = <<>>
        THEN Returns(Exit(exitUsage, <<>>,
                          Fprintln(<<"missing --stop">>) \o printUsage(which)))
        ELSE WithParams(p.seen, <<"/stops/">> \o PathEscape(stop) \o <<"/", which>>, values)

runDepartures(as) == runStopovers(as, "departures")
runArrivals(as) == runStopovers(as, "arrivals")

\* runJourneys, up to the request
runJourneys(as) ==
    LET p == ParseFlags(JourneysFlags, as, <<>>)
        from == StringVar(p.seen, "from", <<>>)
        to == StringVar(p.seen, "to", <<>>)
        via == StringVar(p.seen, "via", <<>>)
        departure == StringVar(p.seen, "departure", <<>>)
        arrival == StringVar(p.seen, "arrival", <<>>)
        results == IntVar(p.seen, "results", 0)
        transfers == IntVar(p.seen, "transfers", 0)
        values ==
            SetIf(transfers > 0,
                  SetIf(results > 0,
                        SetIf(arrival # <<>>,
                              SetIf(departure # <<>>,
                                    SetIf(via # <<>>,
                                          ValuesSet(ValuesSet(NoValues, "from", from), "to", to),
                                          "via", via),
                                    "departure", departure),
                              "arrival", arrival),
                        "results", Itoa(results)),
                  "transfers", Itoa(transfers))
    IN  IF p.err # <<>> THEN Returns(ParseFailed("journeys", p.err))
        ELSE IF IsSet(p.seen, {"help", "h"})
        THEN Returns(Exit(exitOK, printUsage("journeys"), <<>>))
        ELSE IF TrimSpace(from) = <<>> \/ TrimSpace(to) = <<>>
        THEN Returns(Exit(exitUsage, <<>>,
                          Fprintln(<<"--from and --to are required">>) \o printUsage("journeys")))
        ELSE IF departure # <<>> /\ arrival # <<>>
        THEN Returns(Exit(exitUsage, <<>>,
                          Fprintln(<<"--departure and --arrival are mutually exclusive">>)))
        ELSE WithParams(p.seen, <<"/journeys">>, values)

\* runTrip, up to the request
runTrip(as) ==
    LET p == ParseFlags(TripFlags, as, <<>>)
        tripID == FlagOrWord(p, "id")
        lineName == StringVar(p.seen, "line-name", <<>>)
        values == SetIf(lineName # <<>>, NoValues, "lineName", lineName)
    IN  IF p.err # <<>> THEN Returns(ParseFailed("trip", p.err))
        ELSE IF IsSet(p.seen, {"help", "h"})
        THEN Returns(Exit(exitOK, printUsage("trip"), <<>>))
        ELSE IF TrimSpace(tripID) = <<>>
        THEN Returns(Exit(exitUsage, <<>>, Fprintln(<<"missing --id">>) \o printUsage("trip")))
        ELSE WithParams(p.seen, <<"/trips/">> \o PathEscape(tripID), values)

\* runRadar, up to the request
runRadar(as) ==
    LET p == ParseFlags(RadarFlags, as, <<>>)
        results == IntVar(p.seen, "results", 0)
        duration == IntVar(p.seen, "duration", 0)
        side(name) == formatFloatArg(IntVar(p.seen, name, 0))
        values ==
            SetIf(duration > 0,
                  SetIf(results > 0,
                        ValuesSet(ValuesSet(ValuesSet(ValuesSet(NoValues,
                            "north", side("north")),
                            "south", side("south")),
                            "west", side("west")),
                            "east", side("east")),
                        "results", Itoa(results)),
                  "duration", Itoa(duration))
    IN  IF p.err # <<>> THEN Returns(ParseFailed("radar", p.err))
        ELSE IF IsSet(p.seen, {"help", "h"})
        THEN Returns(Exit(exitOK, printUsage("radar"), <<>>))
        ELSE IF \E s \in {"north", "south", "west", "east"} : ~IsSet(p.seen, {s})
        THEN Returns(Exit(exitUsage, <<>>,
                          Fprintln(<<"--north, --south, --west, and --east are required">>)
                          \o printUsage("radar")))
        ELSE WithParams(p.seen, <<"/radar">>, values)

\* runRequest, up to the request
runRequest(as) ==
    LET p == ParseFlags(RequestFlags, as, <<>>)
        requestPath == FlagOrWord(p, "path")
    IN  IF p.err # <<>> THEN Returns(ParseFailed("request", p.err))
        ELSE IF IsSet(p.seen, {"help", "h"})
        THEN Returns(Exit(exitOK, printUsage("request"), <<>>))
        ELSE IF TrimSpace(requestPath) = <<>>
        THEN Returns(Exit(exitUsage, <<>>,
                          Fprintln(<<"missing --path">>) \o printUsage("request")))
        ELSE WithParams(p.seen, requestPath, NoValues)

\* The target as Clienter.URL gives it for a path and parameters: written
\* here as the path and the parameters it holds (their escaping and order
\* are buildURL's).
RECURSIVE WriteValues(_, _)
WriteValues(values, keys) ==
    IF keys = {} THEN <<>>
    ELSE LET k == CHOOSE x \in keys : TRUE
         IN  (IF values[k] = <<>> THEN <<>> ELSE <<"&", k, "=">> \o Flatten(values[k]))
             \o WriteValues(values, keys \ {k})
TargetText(p, values) == p \o WriteValues(values, RunKeys)

\* writeJSON
writeJSONAlwaysNewline(data) == data \o <<"\n">>

writeJSON(data) ==
    data \o (IF Len(data) = 0 \/ data[Len(data)] # "\n" THEN <<"\n">> ELSE <<>>)

\* The response bodies a Get returns: the text, and the JSON value it is.
Data(text, json) == [text |-> text, json |-> json]
NoData == Data(<<>>, JInvalid)
ResponseData ==
    {Data(<<>>, JInvalid),
     Data(<<"[]">>, JArr(<<>>)),
     Data(<<"{}", "\n">>, JObj(<<>>)),
     Data(<<"[{\"id\":\"9\"}]">>, JArr(<<JObj(<<(<<"id", JStr(<<"9">>)>>)>>)>>))}

\* What Clienter.Get returns: (data, nil), or (nil, err) with a network
\* error or an HTTPError.
GetOutcomes ==
    {[data |-> d, err |-> NoErr] : d \in ResponseData}
    \cup {[data |-> NoData, err |-> e] :
            e \in {Wrap("request failed", "connection refused"),
                   Wrap("request failed", "Client.Timeout exceeded"),
                   HTTPError(404, NotFoundBody)}}
NoOutcome == [data |-> NoData, err |-> NoErr]

\* The formatter runRequestWithFormatter is given by each command runner.
Formatter(c, data, withHeader) ==
    CASE c = "locations" -> LocationsPlain(data, withHeader)
      [] c \in {"departures", "arrivals"} -> StopoversPlain(data, withHeader)
      [] c = "journeys" -> JourneysPlain(data, withHeader)
      [] c = "trip" -> TripPlain(data, withHeader)
      [] c = "radar" -> RadarPlain(data, withHeader)

\* runRequestWithFormatter, lines 669-682: after a successful fetch
runRequestWithFormatter(c, data, m) ==
    IF m = "json" THEN Exit(exitOK, writeJSON(data.text), <<>>)
    ELSE LET f == Formatter(c, data.json, m = "human")
         IN  IF f.err # ""
             THEN Exit(exitError, <<>>, <<"formatting error: ", f.err, "\n">>)
             ELSE Exit(exitOK, f.out, <<>>)

\* runRequestRaw, lines 690-698: after a successful fetch
runRequestRaw(data, m) ==
    IF m = "plain"
    THEN Exit(exitOK,
              data.text \o (IF Len(data.text) = 0 \/ data.text[Len(data.text)] # "\n"
                            THEN <<"\n">> ELSE <<>>),
              <<>>)
    ELSE Exit(exitOK, writeJSON(data.text), <<>>)

\* fetch and its callers, lines 708-711, 666-668 and 687-689: where Run goes
\* once Get has returned.
AfterGetRetries(err) == IF err # NoErr THEN "get" ELSE "render"

AfterGet(err) == IF err # NoErr THEN "exit" ELSE "render"

----------------------------------------------------------------------------
(* internal/cli: Run, step by step *)

\* The command lines: global flags, a command, its required flags or some
\* of them, and at most MaxExtra more arguments.
GlobalArgs ==
    {<<>>, <<BoolArg("help")>>, <<BoolArg("version")>>, <<BoolArg("json")>>,
     <<BoolArg("plain")>>, <<BoolArg("verbose")>>,
     <<BoolArg("json"), BoolArg("plain")>>, <<BoolArg("verbose"), BoolArg("json")>>,
     <<FlagArg("timeout", <<"x">>)>>, <<FlagArg("timeout", <<"5", "s">>)>>,
     <<FlagArg("base-url", <<>>)>>, <<BoolArg("bogus")>>}

RequiredArgs(c) ==
    CASE c = "locations" -> {<<>>, <<FlagArg("query", <<"berlin">>)>>}
      [] c \in {"departures", "arrivals"} -> {<<>>, <<FlagArg("stop", <<"8011160">>)>>}
      [] c = "journeys" ->
            {<<>>, <<FlagArg("from", <<"A">>)>>,
             <<FlagArg("from", <<"A">>), FlagArg("to", <<"B">>)>>}
      [] c = "trip" -> {<<>>, <<FlagArg("id", <<"1", "/", "2">>)>>}
      [] c = "radar" ->
            {<<>>,
             <<FlagArg("north", <<"5", "3">>), FlagArg("south", <<"5", "2">>),
               FlagArg("west", <<"1", "3">>)>>,
             <<FlagArg("north", <<"5", "3">>), FlagArg("south", <<"5", "2">>),
               FlagArg("west", <<"1", "3">>), FlagArg("east", <<"1", "4">>)>>}
      [] c = "request" -> {<<>>, <<FlagArg("path", <<"/", "x">>)>>}
      [] OTHER -> {<<>>}

ExtraArgs ==
    {WordArg(<<"X">>), WordArg(<<"trip">>), BoolArg("help"),
     FlagArg("param", <<"k", "=", "v">>), FlagArg("param", <<"k", "v">>),
     FlagArg("results", <<"5">>), BoolArg("bogus")}

CommandLine(g, c, r, x) == g \o <<WordArg(<<c>>)>> \o r \o x

IsCommandLine(as) ==
    \/ as \in GlobalArgs
    \/ \E c \in Commands \cup {"help", "bogus"} :
          \E g \in GlobalArgs, r \in RequiredArgs(c), x \in SeqsUpTo(ExtraArgs, MaxExtra) :
              as = CommandLine(g, c, r, x)

\* NewClient: the error it returns for a configuration, NoErr for none.
NewClientError(c) ==
    IF TrimSpace(c.BaseURL) = <<>> THEN ErrorsNew("base URL is required")
    ELSE IF ~ParseOK(c.BaseURL) THEN Wrap("parse base URL", "missing protocol scheme")
    ELSE NoErr

RunInit ==
    /\ URLOff /\ GetOff /\ FormatOff /\ DelayOff /\ PickOff /\ UseOff
    /\ rpc = "start"
    /\ IsCommandLine(args)
    /\ restArgs = <<>> /\ mode = "human" /\ verbose = FALSE /\ clientCfg = NoCfg
    /\ command = "" /\ cmdArgs = <<>> /\ request = NoRequest
    /\ calls = <<>> /\ outcome = NoOutcome
    /\ stdout = <<>> /\ stderr = <<>> /\ exitCode = 0 - 1

\* Run or a command runner returns.
Finish(step) ==
    /\ rpc' = "exit"
    /\ exitCode' = step.exit
    /\ stdout' = stdout \o step.out
    /\ stderr' = stderr \o step.err

\* Run, lines 43-127: the global flags are parsed and checked.
RunStart ==
    /\ rpc = "start"
    /\ LET g == RunGlobal(args)
       IN  IF g.step.exit >= 0
           THEN Finish(g.step) /\ UNCHANGED <<restArgs, mode, verbose, clientCfg>>
           ELSE /\ restArgs' = g.settings.rest
                /\ mode' = g.settings.mode
                /\ verbose' = g.settings.verbose
                /\ clientCfg' = g.settings.cfg
                /\ rpc' = "client"
                /\ UNCHANGED <<stdout, stderr, exitCode>>
    /\ UNCHANGED <<args, command, cmdArgs, request, calls, outcome>>
    /\ UNCHANGED <<urlVars, getVars, fmtVars, dlyVars, pickVars, useVars>>

\* Run, lines 129-137: the client is made.
CallNewClient ==
    /\ rpc = "client"
    /\ IF NewClientError(clientCfg) # NoErr
       THEN Finish(Exit(exitError, <<>>, Fprintln(ErrorString(NewClientError(clientCfg)))))
       ELSE rpc' = "dispatch" /\ UNCHANGED <<stdout, stderr, exitCode>>
    /\ UNCHANGED <<args, restArgs, mode, verbose, clientCfg, command, cmdArgs, request,
                   calls, outcome>>
    /\ UNCHANGED <<urlVars, getVars, fmtVars, dlyVars, pickVars, useVars>>

\* Run, lines 139-163: the command is looked up; help and an unknown
\* command return here.
Dispatch ==
    /\ rpc = "dispatch"
    /\ LET c == CommandNamed(restArgs[1])
       IN  IF c \in Commands
           THEN /\ command' = c
                /\ cmdArgs' = Tail(restArgs)
                /\ rpc' = "command"
                /\ UNCHANGED <<stdout, stderr, exitCode>>
           ELSE /\ Finish(IF c = "help" THEN runHelp(Tail(restArgs))
                          ELSE UnknownCommand(restArgs[1]))
                /\ UNCHANGED <<command, cmdArgs>>
    /\ UNCHANGED <<args, restArgs, mode, verbose, clientCfg, request, calls, outcome>>
    /\ UNCHANGED <<urlVars, getVars, fmtVars, dlyVars, pickVars, useVars>>

\* A command runner, up to its call of runRequestWithFormatter or
\* runRequestRaw.
Command(r) ==
    /\ rpc = "command"
    /\ IF r.step.exit >= 0
       THEN Finish(r.step) /\ UNCHANGED request
       ELSE /\ request' = r.request
            /\ rpc' = "fetch"
            /\ UNCHANGED <<stdout, stderr, exitCode>>
    /\ UNCHANGED <<args, restArgs, mode, verbose, clientCfg, command, cmdArgs, calls, outcome>>
    /\ UNCHANGED <<urlVars, getVars, fmtVars, dlyVars, pickVars, useVars>>

CallRunLocations == command = "locations" /\ Command(runLocations(cmdArgs))
CallRunDepartures == command = "departures" /\ Command(runDepartures(cmdArgs))
CallRunArrivals == command = "arrivals" /\ Command(runArrivals(cmdArgs))
CallRunJourneys == command = "journeys" /\ Command(runJourneys(cmdArgs))
CallRunTrip == command = "trip" /\ Command(runTrip(cmdArgs))
CallRunRadar == command = "radar" /\ Command(runRadar(cmdArgs))
CallRunRequest == command = "request" /\ Command(runRequest(cmdArgs))

\* fetch, lines 702-706: with --verbose the target is printed.
FetchVerboseSkipped ==
    /\ rpc = "fetch"
    /\ rpc' = "get"
    /\ UNCHANGED <<args, restArgs, mode, verbose, clientCfg, command, cmdArgs, request,
                   calls, outcome, stdout, stderr, exitCode>>
    /\ UNCHANGED <<urlVars, getVars, fmtVars, dlyVars, pickVars, useVars>>

FetchVerbose ==
    /\ rpc = "fetch"
    /\ stderr' = IF verbose
                 THEN stderr \o <<"GET ">> \o TargetText(request.path, request.values)
                      \o <<"\n">>
                 ELSE stderr
    /\ rpc' = "get"
    /\ UNCHANGED <<args, restArgs, mode, verbose, clientCfg, command, cmdArgs, request,
                   calls, outcome, stdout, exitCode>>
    /\ UNCHANGED <<urlVars, getVars, fmtVars, dlyVars, pickVars, useVars>>

\* fetch, line 707: client.Get is called and returns.
FetchGet ==
    /\ rpc = "get"
    /\ Len(calls) < MaxCalls
    /\ calls' = Append(calls, request)
    /\ \E o \in GetOutcomes : outcome' = o
    /\ rpc' = "got"
    /\ UNCHANGED <<args, restArgs, mode, verbose, clientCfg, command, cmdArgs, request,
                   stdout, stderr, exitCode>>
    /\ UNCHANGED <<urlVars, getVars, fmtVars, dlyVars, pickVars, useVars>>

\* fetch, lines 708-712, and its callers, lines 666-668 and 687-689: an
\* error is printed and Run returns exitError.
FetchReturn ==
    /\ rpc = "got"
    /\ rpc' = AfterGet(outcome.err)
    /\ stderr' = IF outcome.err # NoErr
                 THEN stderr \o Fprintln(ErrorString(outcome.err)) ELSE stderr
    /\ exitCode' = IF rpc' = "exit" THEN exitError ELSE exitCode
    /\ UNCHANGED <<args, restArgs, mode, verbose, clientCfg, command, cmdArgs, request,
                   calls, outcome, stdout>>
    /\ UNCHANGED <<urlVars, getVars, fmtVars, dlyVars, pickVars, useVars>>

\* runRequestWithFormatter, lines 669-682.
FormatOutput ==
    /\ rpc = "render"
    /\ command # "request"
    /\ Finish(runRequestWithFormatter(command, outcome.data, mode))
    /\ UNCHANGED <<args, restArgs, mode, verbose, clientCfg, command, cmdArgs, request,
                   calls, outcome>>
    /\ UNCHANGED <<urlVars, getVars, fmtVars, dlyVars, pickVars, useVars>>

\* runRequestRaw, lines 690-698.
RawOutput ==
    /\ rpc = "render"
    /\ command = "request"
    /\ Finish(runRequestRaw(outcome.data, mode))
    /\ UNCHANGED <<args, restArgs, mode, verbose, clientCfg, command, cmdArgs, request,
                   calls, outcome>>
    /\ UNCHANGED <<urlVars, getVars, fmtVars, dlyVars, pickVars, useVars>>

RunNext ==
    \/ RunStart
    \/ CallNewClient
    \/ Dispatch
    \/ CallRunLocations
    \/ CallRunDepartures
    \/ CallRunArrivals
    \/ CallRunJourneys
    \/ CallRunTrip
    \/ CallRunRadar
    \/ CallRunRequest
    \/ FetchVerbose
    \/ FetchGet
    \/ FetchReturn
    \/ FormatOutput
    \/ RawOutput

SpecRun == RunInit /\ [][RunNext]_vars

\* A Get of this run has failed.
GetFailed == Len(calls) > 0 /\ outcome.err # NoErr

\* C5: in every run, whatever the arguments and whatever Get returns, Get is
\* called at most once, and once a Get has failed (network error or status
\* outside 2xx) no step of the run calls Get again.
C5_AtMostOneGet ==
    /\ [](Len(calls) <= 1)
    /\ [][GetFailed => calls' = calls]_vars

\* A run whose one request failed without a response: it has returned
\* exitError with nothing on stdout.
C5_Witness ==
    /\ rpc = "exit"
    /\ Len(calls) = 1
    /\ outcome.err = Wrap("request failed", "connection refused")
    /\ exitCode = exitError
    /\ stdout = <<>>

\* The flags a command defines.
FlagsOf(c) ==
    CASE c = "locations" -> LocationsFlags
      [] c \in {"departures", "arrivals"} -> StopFlags
      [] c = "journeys" -> JourneysFlags
      [] c = "trip" -> TripFlags
      [] c = "radar" -> RadarFlags
      [] c = "request" -> RequestFlags

\* A command line read as its user wrote it: the global flags, then the
\* command, then the command's flags.
GlobalPart == ParseFlags(GlobalFlags, args, <<>>)
AsksHelp(p) == IsSet(p.seen, {"help", "h"})
GivenCommand == IF GlobalPart.rest = <<>> THEN "" ELSE CommandNamed(GlobalPart.rest[1])
CommandPart == ParseFlags(FlagsOf(GivenCommand), Tail(GlobalPart.rest), <<>>)

MissingRequired(c, p) ==
    CASE c = "locations" -> IsBlank(FlagOrWord(p, "query"))
      [] c \in {"departures", "arrivals"} -> IsBlank(FlagOrWord(p, "stop"))
      [] c = "journeys" ->
            IsBlank(StringVar(p.seen, "from", <<>>)) \/ IsBlank(StringVar(p.seen, "to", <<>>))
      [] c = "trip" -> IsBlank(FlagOrWord(p, "id"))
      [] c = "radar" -> \E side \in {"north", "south", "west", "east"} : ~IsSet(p.seen, {side})
      [] c = "request" -> IsBlank(FlagOrWord(p, "path"))

\* Invalid usage: a flag that is not defined or has a bad value, no
\* command, an unknown command, or a command without what it requires
\* (--help and --version set the rest of the line aside).
BadGlobalFlags == GlobalPart.err # <<>>
MissingCommand == GlobalPart.rest = <<>>
UnknownCommandGiven ==
    /\ GlobalPart.rest # <<>>
    /\ \/ GivenCommand = ""
       \/ /\ GivenCommand = "help"
          /\ Len(GlobalPart.rest) > 1
          /\ CommandNamed(GlobalPart.rest[2]) \notin Commands
BadCommandFlags == GivenCommand \in Commands /\ CommandPart.err # <<>>
RequiredMissing ==
    /\ GivenCommand \in Commands
    /\ CommandPart.err = <<>>
    /\ ~AsksHelp(CommandPart)
    /\ MissingRequired(GivenCommand, CommandPart)

InvalidUsage ==
    \/ BadGlobalFlags
    \/ /\ ~AsksHelp(GlobalPart)
       /\ ~IsSet(GlobalPart.seen, {"version"})
       /\ MissingCommand \/ UnknownCommandGiven \/ BadCommandFlags \/ RequiredMissing

\* The request of a run was answered and the formatter of the command
\* returned an error for the answer.
FormatterFailed ==
    /\ Len(calls) > 0
    /\ outcome.err = NoErr
    /\ mode # "json"
    /\ command # "request"
    /\ Formatter(command, outcome.data.json, mode = "human").err # ""

\* A run that did what it was asked: it printed the help or the version,
\* or its request was answered and the answer was written.
Succeeded ==
    \/ calls = <<>> /\ stdout # <<>>
    \/ Len(calls) > 0 /\ outcome.err = NoErr /\ ~FormatterFailed

\* C19: Run returns 0 exactly on success, 1 when the request or the
\* formatter fails, with nothing on stdout and a diagnostic on stderr, and
\* 2 on invalid usage (no command, unknown command, bad flags, missing
\* required arguments).
C19_ExitCodes ==
    rpc = "exit" =>
        /\ exitCode = 0 <=> Succeeded
        /\ (GetFailed \/ FormatterFailed) =>
               exitCode = 1 /\ stdout = <<>> /\ stderr # <<>>
        /\ InvalidUsage => exitCode = 2

\* The request of the run was answered without error.
Answered == Len(calls) > 0 /\ outcome.err = NoErr

EndsWithNewline(text) == text # <<>> /\ text[Len(text)] = "\n"

\* C20: with --json every command, and the request command in every
\* mode, writes to stdout the bytes of the response as they came, whether
\* they are JSON or not, and after them one newline exactly when they do
\* not end with one; it returns 0 and writes no table.
C20_RawOutput ==
    (rpc = "exit" /\ Answered /\ (mode = "json" \/ command = "request")) =>
        /\ exitCode = 0
        /\ stdout = IF EndsWithNewline(outcome.data.text) THEN outcome.data.text
                    ELSE outcome.data.text \o <<"\n">>

\* The repository's test: --json locations --query berlin, answered with [].
C20_Witness ==
    /\ rpc = "exit"
    /\ args = <<BoolArg("json"), WordArg(<<"locations">>), FlagArg("query", <<"berlin">>)>>
    /\ outcome.data.text = <<"[]">>
    /\ outcome.err = NoErr
    /\ stdout = <<"[]", "\n">>
    /\ stderr = <<>>
    /\ exitCode = 0

IsPrefix(p, text) == Len(p) <= Len(text) /\ SubSeq(text, 1, Len(p)) = p

\* The line fetch prints for a request: GET and the target of its path and
\* parameters.
GetLine(r) == <<"GET ">> \o TargetText(r.path, r.values) \o <<"\n">>

\* C21: with --verbose the line "GET <target>" for the path and parameters
\* of the request is on stderr before Get is called, ahead of the error
\* line of a failed Get; without --verbose a run that returns 0 has written
\* nothing to stderr.
C21_VerboseBeforeGet ==
    /\ [][(calls' # calls /\ verbose) =>
              /\ IsPrefix(GetLine(request), stderr)
              /\ calls' = Append(calls, request)
              /\ stderr' = stderr]_vars
    /\ []((verbose /\ Len(calls) > 0) => IsPrefix(GetLine(calls[1]), stderr))
    /\ []((rpc = "exit" /\ verbose /\ GetFailed) =>
              stderr = GetLine(calls[1]) \o Fprintln(ErrorString(outcome.err)))
    /\ []((rpc = "exit" /\ exitCode = 0 /\ ~IsSet(GlobalPart.seen, {"verbose"})) =>
              stderr = <<>>)

\* --verbose, and a Get that failed with 404: the GET line, then the error.
C21_Witness ==
    /\ rpc = "exit"
    /\ verbose
    /\ command = "locations"
    /\ outcome.err = HTTPError(404, NotFoundBody)
    /\ stderr = GetLine(calls[1]) \o Fprintln(ErrorString(outcome.err))
    /\ stdout = <<>>

\* The commands that take their required value as a word, the flag that
\* value otherwise comes by, and the runner of a command.
PositionalCommands == {"locations", "departures", "arrivals", "trip", "request"}

RequiredFlag(c) ==
    CASE c = "locations" -> "query"
      [] c \in {"departures", "arrivals"} -> "stop"
      [] c = "trip" -> "id"
      [] c = "request" -> "path"

RunnerOf(c, as) ==
    CASE c = "locations" -> runLocations(as)
      [] c = "departures" -> runDepartures(as)
      [] c = "arrivals" -> runArrivals(as)
      [] c = "journeys" -> runJourneys(as)
      [] c = "trip" -> runTrip(as)
      [] c = "radar" -> runRadar(as)
      [] c = "request" -> runRequest(as)

\* The arguments of the command are a word and then flags only; the same
\* arguments with the word given through the flag.
WordThenFlags ==
    /\ cmdArgs # <<>>
    /\ Head(cmdArgs).kind = "word"
    /\ \A i \in 2..Len(cmdArgs) : cmdArgs[i].kind # "word"

FlagForm == <<FlagArg(RequiredFlag(command), Head(cmdArgs).value)>> \o Tail(cmdArgs)

\* C22: a command given its required value as a word followed by flags
\* asks for the path and parameters it asks for when the value is given
\* through the flag, with the same other flags.
C22_PositionalAsFlag ==
    (/\ command \in PositionalCommands
     /\ rpc \in {"fetch", "get", "got", "render", "exit"}
     /\ WordThenFlags
     /\ RunnerOf(command, FlagForm).step = GoOn) =>
        request = RunnerOf(command, FlagForm).request

----------------------------------------------------------------------------
(* The URL composer alone *)

URLInit ==
    /\ GetOff /\ FormatOff /\ DelayOff /\ RunOff /\ PickOff /\ UseOff
    /\ upc = "call"
    /\ base \in Bases
    /\ path \in ResourcePaths
    /\ params \in ParamSets
    /\ resolved = NoURL
    /\ target = <<>>

\* Client.URL
ClientURL ==
    /\ upc = "call"
    /\ resolved' = Resolved(base, path, params)
    /\ target' = buildURL(base, path, params)
    /\ upc' = "done"
    /\ UNCHANGED <<base, path, params>>
    /\ UNCHANGED <<getVars, fmtVars, dlyVars, runVars, pickVars, useVars>>

SpecURL == URLInit /\ [][ClientURL]_vars

\* What a server reads back from a target: url.Parse splits off the scheme
\* and the authority, cuts the query at the first "?" and unescapes the path.
RECURSIVE UpToQuery(_)
UpToQuery(t) ==
    IF t = <<>> \/ Head(t) = "?" THEN <<>> ELSE <<Head(t)>> \o UpToQuery(Tail(t))

HexChar(h1, h2) ==
    CASE h1 = "3" /\ h2 = "F" -> "?"
      [] h1 = "2" /\ h2 = "5" -> "%"
      [] h1 = "2" /\ h2 = "0" -> " "
      [] h1 = "2" /\ h2 = "6" -> "&"
      [] h1 = "3" /\ h2 = "D" -> "="
      [] h1 = "2" /\ h2 = "B" -> "+"
      [] OTHER -> "?!"

RECURSIVE PathUnescape(_)
PathUnescape(s) ==
    IF s = <<>> THEN <<>>
    ELSE IF Head(s) = "%" /\ Len(s) >= 3
         THEN <<HexChar(s[2], s[3])>> \o PathUnescape(SubSeq(s, 4, Len(s)))
         ELSE <<Head(s)>> \o PathUnescape(Tail(s))

\* The tokens of scheme and authority that start every target of base b.
AuthorityLen(b) ==
    Len(URLString([Scheme |-> b.Scheme, Host |-> b.Host, Path |-> <<>>, RawQuery |-> <<>>]))

TargetPath(t, b) == PathUnescape(UpToQuery(SubSeq(t, AuthorityLen(b) + 1, Len(t))))

IsSlashes(s) == \A i \in 1..Len(s) : s[i] = "/"

\* pre is s without its trailing slashes
StrippedRight(s, pre) ==
    /\ \E k \in 0..Len(s) : pre = SubSeq(s, 1, k) /\ IsSlashes(SubSeq(s, k + 1, Len(s)))
    /\ (pre = <<>> \/ pre[Len(pre)] # "/")

\* suf is s without its leading slashes
StrippedLeft(s, suf) ==
    /\ \E k \in 0..Len(s) : suf = SubSeq(s, k + 1, Len(s)) /\ IsSlashes(SubSeq(s, 1, k))
    /\ (suf = <<>> \/ suf[1] # "/")

\* C1: for every base and every non-blank resource path, the path of the
\* target buildURL returns is the base path without its trailing slashes,
\* one "/", and the resource path without its leading slashes; so the base's
\* prefix is kept whatever the resource path starts with, and an empty base
\* path gives "/" and the cleaned path.
C1_PathMerge ==
    (upc = "done" /\ path # <<>>) =>
        \E i \in 0..Len(base.Path), j \in 0..Len(path) :
            LET pre == SubSeq(base.Path, 1, i)
                suf == SubSeq(path, j + 1, Len(path))
            IN  /\ StrippedRight(base.Path, pre)
                /\ StrippedLeft(path, suf)
                /\ TargetPath(target, base) = pre \o <<"/">> \o suf
                /\ resolved.Path = pre \o <<"/">> \o suf

\* A base with a prefix and a trailing slash, a resource path with a leading
\* slash and a character that the target escapes.
C1_Witness ==
    /\ upc = "done"
    /\ base.Path = <<"/", "a", "/">>
    /\ path = <<"/", "a", "?">>
    /\ TargetPath(target, base) = <<"/", "a", "/", "a", "?">>

----------------------------------------------------------------------------
(* The query of a target, read back *)

\* Parameter values with every character url.QueryEscape rewrites, one that
\* reads like an escape, and the empty value; up to MaxQueryVals of them
\* under one key.
QueryTexts == {<<"a", "&">>, <<"a", " ">>, <<"=", "+">>, <<"%", "2", "6">>, <<>>}
QueryParamSets == [Keys -> SeqsUpTo(QueryTexts, MaxQueryVals)]

QueryInit ==
    /\ GetOff /\ FormatOff /\ DelayOff /\ RunOff /\ PickOff /\ UseOff
    /\ upc = "call"
    /\ base \in {b \in Bases : b.Path \in {<<>>, <<"/", "a">>}}
    /\ path \in {<<"/", "a">>, <<"a", "?">>}
    /\ params \in QueryParamSets
    /\ resolved = NoURL
    /\ target = <<>>

SpecQuery == QueryInit /\ [][ClientURL]_vars

\* url.Parse: the query is what follows the first "?".
QueryOf(t) ==
    LET at == {i \in 1..Len(t) : t[i] = "?"}
    IN  IF at = {} THEN <<>>
        ELSE SubSeq(t, (CHOOSE i \in at : \A j \in at : i <= j) + 1, Len(t))

\* url.QueryUnescape
RECURSIVE QueryUnescape(_)
QueryUnescape(s) ==
    IF s = <<>> THEN <<>>
    ELSE IF Head(s) = "+" THEN <<" ">> \o QueryUnescape(Tail(s))
    ELSE IF Head(s) = "%" /\ Len(s) >= 3
         THEN <<HexChar(s[2], s[3])>> \o QueryUnescape(SubSeq(s, 4, Len(s)))
         ELSE <<Head(s)>> \o QueryUnescape(Tail(s))

\* url.ParseQuery: the pairs between "&", each cut at its first "=", key
\* and value unescaped; the values of a key in the order of the text.
QueryPairs(q) ==
    LET parts == SelectSeq(Split(q, "&"), LAMBDA part : part # <<>>)
    IN  [i \in 1..Len(parts) |->
            LET kv == Split(parts[i], "=")
            IN  [key |-> QueryUnescape(kv[1]),
                 value |-> QueryUnescape(SubSeq(parts[i], Len(kv[1]) + 2, Len(parts[i])))]]

ParseQuery(q) ==
    [k \in Keys |->
        LET mine == SelectSeq(QueryPairs(q), LAMBDA kv : kv.key = <<k>>)
        IN  [i \in 1..Len(mine) |-> mine[i].value]]

\* C16: the query of the target buildURL composed, decoded, gives back
\* every key with its values in their order and no other key; for the
\* empty parameter set the target holds no "?" at all.
C16_QueryRoundTrip ==
    upc = "done" =>
        /\ ParseQuery(QueryOf(target)) = params
        /\ \A i \in 1..Len(QueryPairs(QueryOf(target))) :
               \E k \in Keys : QueryPairs(QueryOf(target))[i].key = <<k>>
        /\ params = NoParams => \A i \in 1..Len(target) : target[i] # "?"

\* A key given twice, with values that need escaping.
C16_Witness ==
    /\ upc = "done"
    /\ params["query"] = <<(<<"a", "&">>), <<"=", "+">>>>
    /\ params["results"] = <<(<<"a", " ">>)>>
    /\ QueryOf(target) =
           <<"query", "=", "a", "%", "2", "6", "&",
             "query", "=", "%", "3", "D", "%", "2", "B", "&",
             "results", "=", "a", "+">>

----------------------------------------------------------------------------
(* One client, used again and again *)

\* The requests made of the client: with and without parameters.
UseRequests ==
    {[path |-> <<"/", "a">>, params |-> NoParams],
     [path |-> <<"a", "?">>, params |-> [NoParams EXCEPT !["query"] = <<(<<"a", "&">>)>>]]}

UseInit ==
    /\ FormatOff /\ DelayOff /\ RunOff /\ PickOff
    /\ gpc = "new"
    /\ cfg \in Configs
    /\ timeout = 0 /\ req = NoReq /\ elapsed = 0 /\ resp = NoResp
    /\ getData = <<>> /\ getErr = NoErr /\ errText = <<>>
    /\ upc = "off"
    /\ base = ParseURL(<<>>)
    /\ path = <<>> /\ params = NoParams
    /\ resolved = NoURL /\ target = <<>>
    /\ made = <<>> /\ ncalls = 0 /\ composed = {}

\* NewClient, and the Client it returns.
UseNewClient ==
    /\ gpc = "new"
    /\ IF TrimSpace(cfg.BaseURL) = <<>>
       THEN /\ getErr' = ErrorsNew("base URL is required")
            /\ gpc' = "noclient"
            /\ UNCHANGED <<base, timeout, made>>
       ELSE IF ~ParseOK(cfg.BaseURL)
       THEN /\ getErr' = Wrap("parse base URL", "missing protocol scheme")
            /\ gpc' = "noclient"
            /\ UNCHANGED <<base, timeout, made>>
       ELSE /\ base' = ParseURL(cfg.BaseURL)
            /\ timeout' = ClientTimeout(cfg.Timeout)
            /\ made' = <<[baseURL |-> base', timeout |-> timeout',
                          userAgent |-> cfg.UserAgent]>>
            /\ gpc' = "idle"
            /\ UNCHANGED getErr
    /\ UNCHANGED <<upc, path, params, resolved, target>>
    /\ UNCHANGED <<cfg, req, elapsed, resp, getData, errText>>
    /\ UNCHANGED <<ncalls, composed>>
    /\ UNCHANGED <<fmtVars, dlyVars, runVars, pickVars>>

\* Client.URL, lines 56-58: one call, from its start to its return.
UseURL ==
    /\ gpc = "idle"
    /\ ncalls < MaxUses
    /\ \E r \in UseRequests :
           /\ path' = r.path
           /\ params' = r.params
           /\ resolved' = Resolved(base, r.path, r.params)
           /\ target' = buildURL(base, r.path, r.params)
           /\ base' = BaseAfterBuildURL(base, r.path, r.params)
           /\ composed' = composed \cup {<<r.path, r.params, target'>>}
    /\ ncalls' = ncalls + 1
    /\ UNCHANGED <<upc, made>>
    /\ UNCHANGED getVars
    /\ UNCHANGED <<fmtVars, dlyVars, runVars, pickVars>>

\* Client.Get, lines 65-77: the target is built and the request is sent.
UseGet ==
    /\ gpc = "idle"
    /\ ncalls < MaxUses
    /\ \E r \in UseRequests :
           /\ path' = r.path
           /\ params' = r.params
           /\ resolved' = Resolved(base, r.path, r.params)
           /\ target' = buildURL(base, r.path, r.params)
           /\ base' = BaseAfterBuildURL(base, r.path, r.params)
           /\ composed' = composed \cup {<<r.path, r.params, target'>>}
    /\ req' = [URL |-> target', Accept |-> "application/json", UserAgent |-> cfg.UserAgent]
    /\ elapsed' = 0
    /\ gpc' = "sending"
    /\ UNCHANGED <<upc, made, ncalls>>
    /\ UNCHANGED <<cfg, timeout, resp, getData, getErr, errText>>
    /\ UNCHANGED <<fmtVars, dlyVars, runVars, pickVars>>

\* Get has returned, with a payload or an error; its locals are gone and
\* the client is there for the next call.
UseReturn ==
    /\ gpc = "done"
    /\ ncalls' = ncalls + 1
    /\ resp' = NoResp
    /\ getData' = <<>>
    /\ getErr' = NoErr
    /\ gpc' = "idle"
    /\ UNCHANGED urlVars
    /\ UNCHANGED <<cfg, timeout, req, elapsed, errText>>
    /\ UNCHANGED <<made, composed>>
    /\ UNCHANGED <<fmtVars, dlyVars, runVars, pickVars>>

UseNext ==
    \/ UseNewClient
    \/ UseURL
    \/ UseGet
    \/ DoFails
    \/ DoResponds
    \/ ReadBody
    \/ ReadFails
    \/ Tick
    \/ TimeoutExpires
    \/ UseReturn

SpecUse == UseInit /\ [][UseNext]_vars

\* C17: whatever calls of URL and Get a client has served, and however
\* they ended, its base URL, timeout and user agent are the ones NewClient
\* gave it, and every target composed for a path and parameters is the
\* one composed for them the first time.
C17_ClientUnchanged ==
    made # <<>> =>
        /\ base = made[1].baseURL
        /\ timeout = made[1].timeout
        /\ cfg.UserAgent = made[1].userAgent
        /\ \A c \in composed : c[3] = buildURL(made[1].baseURL, c[1], c[2])
        /\ \A c1, c2 \in composed : (c1[1] = c2[1] /\ c1[2] = c2[2]) => c1[3] = c2[3]

\* The second call on a client with a path prefix, a Get for the path and
\* parameters of the first call, has failed with 404.
C17_Witness ==
    /\ gpc = "done"
    /\ ncalls = 1
    /\ made # <<>>
    /\ base.Path = <<"/", "a", "/">>
    /\ getErr = HTTPError(404, NotFoundBody)
    /\ req.URL = <<"http", ":", "//", "h", "/", "a", "/", "a">>
    /\ composed = {<<path, params, req.URL>>}

\* C18: a client made with a zero or negative timeout has a timeout of
\* exactly 10 seconds, one made with a positive timeout has that timeout;
\* the timeout of a client is never zero or negative, and no request is in
\* flight for longer than it.
C18_TimeoutDefault ==
    made # <<>> =>
        /\ timeout > 0
        /\ cfg.Timeout <= 0 => timeout = 10
        /\ cfg.Timeout > 0 => timeout = cfg.Timeout
        /\ elapsed <= timeout

\* A client configured with -1: its request has been in flight for the
\* ten seconds of the default.
C18_Witness ==
    /\ made # <<>>
    /\ cfg.Timeout = 0 - 1
    /\ gpc = "sending"
    /\ timeout = 10
    /\ elapsed = 10

====
